---- MODULE Spec2Model ----
(***************************************************************************)
(* Model of the master-schedule reader and writer of nvi-inc/masters       *)
(* (src/masters/master.py, src/masters/__init__.py) and of the paragraph   *)
(* wrapping of its notes (src/masters/notes.py).                           *)
(*                                                                         *)
(* A Python str is a sequence of one-character strings; a cell value, a    *)
(* dict value or a date/time object is a record tagged by its Python type  *)
(* in field t.  A Python dict is a function whose DOMAIN is its key set.   *)
(* An exception is carried in a field exc ("" = no exception) and is       *)
(* propagated by every later statement of the handler that raised it.      *)
(***************************************************************************)
EXTENDS Integers, Sequences, FiniteSets, TLC

(***************************************************************************)
(* Characters and strings                                                  *)
(***************************************************************************)
UpperChars == <<"A","B","C","D","E","F","G","H","I","J","K","L","M",
                "N","O","P","Q","R","S","T","U","V","W","X","Y","Z">>

LowerChars == <<"a","b","c","d","e","f","g","h","i","j","k","l","m",
                "n","o","p","q","r","s","t","u","v","w","x","y","z">>

DigitChars == <<"0","1","2","3","4","5","6","7","8","9">>

\* code-point order of the characters the model uses
Alphabet == <<" ", "-">> \o DigitChars \o UpperChars \o <<"_">> \o LowerChars

Ord(c) == CHOOSE i \in 1..Len(Alphabet) : Alphabet[i] = c

Range(s) == {s[i] : i \in 1..Len(s)}

isspace(c) == c = " "

isdigit(c) == c \in Range(DigitChars)

\* str.lower() on one character
lowerChar(c) ==
    IF c \in Range(UpperChars)
    THEN LowerChars[CHOOSE i \in 1..26 : UpperChars[i] = c]
    ELSE c

\* str.lower(); str.casefold() agrees with it on the ASCII alphabet
lower(s) == [i \in 1..Len(s) |-> lowerChar(s[i])]

\* s[:n]
Take(s, n) == IF Len(s) <= n THEN s ELSE SubSeq(s, 1, n)

\* s[n:]
Drop(s, n) == IF Len(s) <= n THEN <<>> ELSE SubSeq(s, n + 1, Len(s))

RECURSIVE lstrip(_)
lstrip(s) == IF s # <<>> /\ isspace(Head(s)) THEN lstrip(Tail(s)) ELSE s

RECURSIVE rstrip(_)
rstrip(s) ==
    IF s # <<>> /\ isspace(s[Len(s)]) THEN rstrip(SubSeq(s, 1, Len(s) - 1)) ELSE s

\* str.strip()
strip(s) == lstrip(rstrip(s))

\* lexicographic s < t on code points (str.__lt__)
RECURSIVE StrLess(_, _)
StrLess(s, t) ==
    IF t = <<>> THEN FALSE
    ELSE IF s = <<>> THEN TRUE
    ELSE IF Head(s) # Head(t) THEN Ord(Head(s)) < Ord(Head(t))
    ELSE StrLess(Tail(s), Tail(t))

\* ''.join(list)
RECURSIVE Concat(_)
Concat(list) == IF list = <<>> THEN <<>> ELSE Head(list) \o Concat(Tail(list))

\* sep.join(list)
RECURSIVE Join(_, _)
Join(list, sep) ==
    IF list = <<>> THEN <<>>
    ELSE IF Len(list) = 1 THEN Head(list)
    ELSE Head(list) \o sep \o Join(Tail(list), sep)

\* the first whitespace-free word of s, s not starting with whitespace
RECURSIVE FirstWord(_)
FirstWord(s) ==
    IF s = <<>> \/ isspace(Head(s)) THEN <<>> ELSE <<Head(s)>> \o FirstWord(Tail(s))

\* str.split() without arguments: the whitespace-separated words, none empty
RECURSIVE split(_)
split(s) ==
    LET t == lstrip(s)
        w == FirstWord(t)
    IN  IF t = <<>> THEN <<>> ELSE <<w>> \o split(Drop(t, Len(w)))

\* re.findall('.' * n, s): the successive whole n-character pieces of s
RECURSIVE findall(_, _)
findall(n, s) ==
    IF n <= 0 \/ Len(s) < n THEN <<>> ELSE <<Take(s, n)>> \o findall(n, Drop(s, n))

\* list with x put after every element that is not greater than x
RECURSIVE InsertStr(_, _)
InsertStr(x, list) ==
    IF list = <<>> THEN <<x>>
    ELSE IF StrLess(x, Head(list)) THEN <<x>> \o list
    ELSE <<Head(list)>> \o InsertStr(x, Tail(list))

\* sorted(list) of strings
RECURSIVE sortedStr(_)
sortedStr(list) ==
    IF list = <<>> THEN <<>>
    ELSE InsertStr(list[Len(list)], sortedStr(SubSeq(list, 1, Len(list) - 1)))

(***************************************************************************)
(* XLMaster.format_list                                                    *)
(***************************************************************************)
\* plausible slip: the cluster is sorted character by character
clean_chars(item, n) == Concat(sortedStr([i \in 1..Len(strip(item)) |-> <<strip(item)[i]>>]))

\* the inner function clean of format_list
clean(item, n) == Concat(sortedStr(findall(n, strip(item))))

\* plausible slip: the tokens are joined without the truncation sta[:n]
groups_whole(stations, n) ==
    LET words == split(Concat(stations))
    IN  [i \in 1..Len(words) |-> clean(words[i], n)]

\* the list comprehension of format_list
groups(stations, n) ==
    LET words == split(Concat([i \in 1..Len(stations) |-> Take(stations[i], n)]))
    IN  [i \in 1..Len(words) |-> clean(words[i], n)]

Sep == <<" ", "-">>

\* plausible slip: the blank-first case is not told apart
format_list_noblank(stations, n) ==
    IF stations = <<>> THEN [exc |-> "IndexError", v |-> <<>>]
    ELSE [exc |-> "", v |-> Join(groups(stations, n), Sep)]

\* format_list: its value v, or the exception it raises
format_list(stations, n) ==
    IF stations = <<>> THEN [exc |-> "IndexError", v |-> <<>>]
    ELSE IF strip(stations[1]) = <<>>
         THEN IF groups(stations, n) = <<>>
              THEN [exc |-> "IndexError", v |-> <<>>]
              ELSE [exc |-> "", v |-> Sep \o groups(stations, n)[1]]
         ELSE [exc |-> "", v |-> Join(groups(stations, n), Sep)]

(***************************************************************************)
(* Python values: cell values, dict values, dates and times                *)
(***************************************************************************)
EmptyCell == [t |-> "EmptyCell"]

None == [t |-> "None"]

Str(s) == [t |-> "str", s |-> s]

Num(k) == [t |-> "num", k |-> k]

\* datetime.datetime (naive), sec the seconds since midnight
Datetime(y, m, d, sec) == [t |-> "datetime", y |-> y, m |-> m, d |-> d, sec |-> sec]

\* datetime.date
Date(y, m, d) == [t |-> "date", y |-> y, m |-> m, d |-> d]

\* datetime.time
Time(sec) == [t |-> "time", sec |-> sec]

\* bool(value)
Truthy(value) ==
    CASE value.t = "None" -> FALSE
      [] value.t = "str"  -> value.s # <<>>
      [] value.t = "num"  -> value.k # 0
      [] OTHER            -> TRUE

\* isinstance(value, datetime)
IsDatetime(value) == value.t = "datetime"

\* isinstance(value, date): datetime is a subclass of date
IsDate(value) == value.t \in {"datetime", "date"}

\* isinstance(value, time)
IsTime(value) == value.t = "time"

IsLeap(y) == (y % 4 = 0 /\ y % 100 # 0) \/ y % 400 = 0

DaysInMonth(y, m) ==
    IF m = 2 THEN (IF IsLeap(y) THEN 29 ELSE 28)
    ELSE IF m \in {4, 6, 9, 11} THEN 30 ELSE 31

RECURSIVE DaysBeforeMonth(_, _)
DaysBeforeMonth(y, m) ==
    IF m = 1 THEN 0 ELSE DaysBeforeMonth(y, m - 1) + DaysInMonth(y, m - 1)

\* int(value.strftime('%j'))
DayOfYear(value) == DaysBeforeMonth(value.y, value.m) + value.d

\* date.toordinal()
toordinal(value) ==
    LET y == value.y - 1
    IN  y * 365 + (y \div 4) - (y \div 100) + (y \div 400) + DayOfYear(value)

SecondsPerDay == 86400

\* the place of a datetime on its own time line, in seconds since
\* 2000-01-01 00:00 (only differences and comparisons of it are used)
Seconds(value) ==
    (toordinal(value) - toordinal(Date(2000, 1, 1))) * SecondsPerDay + value.sec

\* timedelta.days: whole days, rounded down
days(seconds) == seconds \div SecondsPerDay

\* datetime.combine(value.date(), tm)
combine(value, tm) == Datetime(value.y, value.m, value.d, tm.sec)

\* datetime.date()
dateOf(value) == Date(value.y, value.m, value.d)

Digit(k) == DigitChars[(k % 10) + 1]

\* value.strftime('%Y') of a four-digit year
strftimeY(value) ==
    <<Digit(value.y \div 1000), Digit(value.y \div 100), Digit(value.y \div 10),
      Digit(value.y)>>

(***************************************************************************)
(* State                                                                   *)
(***************************************************************************)
VARIABLES
    call,       \* a call of a pure function: its arguments and what it returned
    conf,       \* what the run is started with: type, year, debug, clock, zone
    has_errors, \* Base.has_errors (None is modelled as FALSE: both are falsy)
    messages,   \* Base.messages
    codes,      \* XLMaster.codes
    appended,   \* the local list sessions of read_master / read_intensive
    sessions,   \* XLMaster.sessions
    default_field, \* the local default_field of read_intensive
    sheet,      \* the data rows read so far (row k of it is sheet row k + 1)
    last,       \* what the last loop iteration did: appended, skipped, raised
    pc,         \* "reading", "done" (returned) or "raised" (left by an exception)
    result      \* the value read_master / read_intensive returned

vars == <<call, conf, has_errors, messages, codes, appended, sessions,
          default_field, sheet, last, pc, result>>

readerVars == <<conf, has_errors, messages, codes, appended, sessions,
                default_field, sheet, last, pc, result>>

(***************************************************************************)
(* Reference data of a run: master-format.txt, ns-codes.txt, media-key.txt,*)
(* fs-10.toml, master-type-map.json and the constrains table of the        *)
(* configuration, as XLMaster.__init__ loads them                          *)
(***************************************************************************)
ns_codes == {<<"W","Z">>, <<"M","C">>, <<"A","B">>}

media_sizes == {"G", "T"}

\* the fields with a CODES table, in file order
valid_code_fields == <<"SKED", "STATUS", "DBC">>

valid_codes ==
    [SKED   |-> {<<"N","V">>},
     STATUS |-> {<<"o","k">>},
     DBC    |-> {<<"X","A">>}]

\* the fields under a length limit, in configuration order
constrain_fields == <<"DBC">>

constrains == [DBC |-> 2]

old_code_constrain == 6

fs10 == {<<"W","Z">>}

session_types == [c \in {<<"r","1">>} |-> <<"I","V","S","-","R","1">>]

\* self.get_session_type(key, None)
get_session_type(key) ==
    IF key \in DOMAIN session_types THEN Str(session_types[key]) ELSE None

Year1997 == <<"1","9","9","7">>

Year2003 == <<"2","0","0","3">>

ExperimentCutoff == 2024

DelayCap == 9999

FallbackStatus == <<"W","t","_","m","e","d">>

(***************************************************************************)
(* The state a handler works on: the session dict ses, the attributes      *)
(* messages, has_errors and codes, and the exception it has raised         *)
(***************************************************************************)
\* dict[key] = value
Set(dict, key, value) == (key :> value) @@ dict

Raise(st, exception) == IF st.exc # "" THEN st ELSE [st EXCEPT !.exc = exception]

Error(kind, arg, hdr) == [kind |-> kind, arg |-> arg, hdr |-> hdr]

\* plausible slip: the debug argument is ignored
add_error_always(st, error, debug) ==
    IF st.exc # "" THEN st
    ELSE IF {"CODE", "row"} \subseteq DOMAIN st.ses
         THEN [st EXCEPT !.has_errors = TRUE,
                         !.messages = Append(@,
                            [type |-> "ERROR", code |-> st.ses["CODE"],
                             row |-> st.ses["row"].k, error |-> error,
                             extra |-> IF conf.debug THEN "debug" ELSE ""])]
         ELSE [st EXCEPT !.has_errors = TRUE, !.exc = "KeyError"]

\* Base.add_error: the flag is set before the text is built from ses
add_error(st, error, debug) ==
    IF st.exc # "" THEN st
    ELSE IF {"CODE", "row"} \subseteq DOMAIN st.ses
         THEN [st EXCEPT !.has_errors = IF debug THEN @ ELSE TRUE,
                         !.messages = Append(@,
                            [type |-> "ERROR", code |-> st.ses["CODE"],
                             row |-> st.ses["row"].k, error |-> error,
                             extra |-> IF conf.debug THEN "debug" ELSE ""])]
         ELSE [st EXCEPT !.has_errors = IF debug THEN @ ELSE TRUE,
                         !.exc = "KeyError"]

(***************************************************************************)
(* XLMaster.validate_station_info                                          *)
(***************************************************************************)
BlankSta == <<" ", " ">>

Blank4 == <<" ", " ", " ", " ">>

\* the media test of line 244, with the IndexError of a short text
media_check(st, value, hdr) ==
    IF Len(value) < 3 THEN Raise(st, "IndexError")
    ELSE IF ~isdigit(value[3])
         THEN add_error(st, Error("invalid information", Str(value), hdr), FALSE)
    ELSE IF Len(value) < 4 THEN Raise(st, "IndexError")
    ELSE IF value[4] \notin media_sizes
         THEN add_error(st, Error("invalid information", Str(value), hdr), FALSE)
    ELSE st

\* plausible slip: the station code is not looked up
station_check_none(st, sta, hdr) == st

\* the station test of lines 246-247
station_check(st, sta, hdr) ==
    IF sta \notin ns_codes
    THEN add_error(st, Error("invalid station code", Str(sta), hdr), FALSE)
    ELSE st

\* returns the state and the pair (sta, value)
validate_station_info(st, cell, hdr) ==
    IF st.exc # "" \/ ~Truthy(cell) \/ cell.t # "str"
    THEN [st |-> st, sta |-> BlankSta, value |-> Blank4]
    ELSE IF strip(cell.s) = <<>>
    THEN [st |-> st, sta |-> BlankSta, value |-> Blank4]
    ELSE [st |-> station_check(
                   IF conf.type = "master" THEN media_check(st, cell.s, hdr) ELSE st,
                   Take(cell.s, 2), hdr),
          sta |-> Take(cell.s, 2), value |-> cell.s]

(***************************************************************************)
(* XLMaster.validate_session, statement by statement                       *)
(***************************************************************************)
\* plausible slip: the code is compared as written, case included
check_duplicate_exact(st) ==
    IF st.exc # "" THEN st
    ELSE IF "CODE" \notin DOMAIN st.ses THEN Raise(st, "KeyError")
    ELSE IF st.ses["CODE"].t # "str" THEN Raise(st, "AttributeError")
    ELSE LET code == st.ses["CODE"].s
             s1 == IF code \in st.codes
                   THEN add_error(st, Error("duplicate session name", None, ""), FALSE)
                   ELSE st
         IN  IF s1.exc # "" THEN s1 ELSE [s1 EXCEPT !.codes = @ \cup {code}]

\* lines 274-276: duplicate session names
check_duplicate(st) ==
    IF st.exc # "" THEN st
    ELSE IF "CODE" \notin DOMAIN st.ses THEN Raise(st, "KeyError")
    ELSE IF st.ses["CODE"].t # "str" THEN Raise(st, "AttributeError")
    ELSE LET code == lower(st.ses["CODE"].s)
             s1 == IF code \in st.codes
                   THEN add_error(st, Error("duplicate session name", None, ""), FALSE)
                   ELSE st
         IN  IF s1.exc # "" THEN s1 ELSE [s1 EXCEPT !.codes = @ \cup {code}]

\* lines 277-279: the length limits, from the i-th field on
RECURSIVE check_constrains(_, _)
check_constrains(st, i) ==
    IF st.exc # "" \/ i > Len(constrain_fields) THEN st
    ELSE LET code == constrain_fields[i]
         IN  check_constrains(
                 IF code \notin DOMAIN st.ses THEN Raise(st, "KeyError")
                 ELSE IF st.ses[code].t # "str" THEN Raise(st, "TypeError")
                 ELSE IF Len(st.ses[code].s) > constrains[code]
                      THEN add_error(st, Error("has more characters than", st.ses[code], code),
                                     FALSE)
                 ELSE st,
                 i + 1)

\* lines 281-284: DATE is a datetime of the file's year
check_date(st) ==
    IF st.exc # "" THEN st
    ELSE IF ~IsDatetime(st.ses["DATE"])
         THEN add_error(st, Error("invalid DATE", st.ses["DATE"], ""), FALSE)
    ELSE IF strftimeY(st.ses["DATE"]) # conf.year
         THEN add_error(st, Error("invalid DATE", st.ses["DATE"], ""), FALSE)
    ELSE st

\* lines 285-286: TIME is a time
check_time(st) ==
    IF st.exc # "" THEN st
    ELSE IF "TIME" \notin DOMAIN st.ses THEN Raise(st, "KeyError")
    ELSE IF ~IsTime(st.ses["TIME"])
         THEN add_error(st, Error("invalid TIME", st.ses["TIME"], ""), FALSE)
    ELSE st

\* lines 287-289: START, and DATE narrowed to a date
derive_start(st) ==
    IF st.exc # "" THEN st
    ELSE IF IsDate(st.ses["DATE"]) /\ IsTime(st.ses["TIME"])
         THEN [st EXCEPT !.ses = Set(Set(@, "START", combine(@["DATE"], @["TIME"])),
                                     "DATE", dateOf(@["DATE"]))]
    ELSE st

\* lines 290-292: long session codes need FS 10 stations
check_old_code(st, stations) ==
    IF st.exc # "" THEN st
    ELSE IF Len(st.ses["CODE"].s) > old_code_constrain
            /\ SelectSeq(stations, LAMBDA c : strip(c) # <<>> /\ c \notin fs10) # <<>>
         THEN add_error(st, Error("CODE too long", st.ses["CODE"], ""), FALSE)
    ELSE st

\* lines 295-297: enumerated codes, from the i-th table on
RECURSIVE check_valid_codes(_, _)
check_valid_codes(st, i) ==
    IF st.exc # "" \/ i > Len(valid_code_fields) THEN st
    ELSE LET code == valid_code_fields[i]
         IN  check_valid_codes(
                 IF code \in {"STATUS", "DBC"} THEN st
                 ELSE IF code \notin DOMAIN st.ses THEN Raise(st, "KeyError")
                 ELSE IF ~(st.ses[code].t = "str" /\ st.ses[code].s \in valid_codes[code])
                      THEN add_error(st, Error("invalid code", st.ses[code], code), FALSE)
                 ELSE st,
                 i + 1)

\* plausible slip: the year of the file decides, not the year of the session
backfill_by_file_year(st) ==
    IF st.exc # "" THEN st
    ELSE IF ~IsDate(st.ses["DATE"]) THEN Raise(st, "AttributeError")
    ELSE IF StrLess(conf.year, <<"2","0","2","4">>)
         THEN LET key == lower(strip(st.ses["CODE"].s))
                  s1  == [st EXCEPT !.ses = Set(@, "EXPERIMENT", get_session_type(key))]
              IN  IF ~Truthy(s1.ses["EXPERIMENT"])
                  THEN add_error(s1, Error("not found in master-type-map", Str(key), ""),
                                 FALSE)
                  ELSE s1
    ELSE st

\* lines 300-303: EXPERIMENT from master-type-map for sessions before 2024
backfill_experiment(st) ==
    IF st.exc # "" THEN st
    ELSE IF ~IsDate(st.ses["DATE"]) THEN Raise(st, "AttributeError")
    ELSE IF st.ses["DATE"].y < ExperimentCutoff
         THEN LET key == lower(strip(st.ses["CODE"].s))
                  s1  == [st EXCEPT !.ses = Set(@, "EXPERIMENT", get_session_type(key))]
              IN  IF ~Truthy(s1.ses["EXPERIMENT"])
                  THEN add_error(s1, Error("not found in master-type-map", Str(key), ""),
                                 FALSE)
                  ELSE s1
    ELSE st

\* plausible slip: a DOY supplied by the sheet is kept
normalise_keep(st) ==
    IF st.exc # "" THEN st
    ELSE [st EXCEPT !.ses = Set(Set(@, "CODE", Str(lower(@["CODE"].s))),
                                "DOY", IF "DOY" \in DOMAIN @ THEN @["DOY"]
                                       ELSE Num(DayOfYear(@["DATE"])))]

\* lines 304-307: CODE in lower case, DOY from DATE
normalise(st) ==
    IF st.exc # "" THEN st
    ELSE [st EXCEPT !.ses = Set(Set(@, "CODE", Str(lower(@["CODE"].s))),
                                "DOY", Num(DayOfYear(@["DATE"])))]

\* ses['DATE'] <= self.today: a datetime does not compare with a date
date_le_today(st) == toordinal(st.ses["DATE"]) <= toordinal(conf.today)

\* lines 308-316: STATUS of a master schedule after 1997
check_status(st) ==
    IF st.exc # "" THEN st
    ELSE IF ~(conf.type = "master" /\ StrLess(Year1997, conf.year)) THEN st
    ELSE IF "STATUS" \notin DOMAIN st.ses THEN Raise(st, "KeyError")
    ELSE IF ~Truthy(st.ses["STATUS"])
         THEN IF st.ses["DATE"].t = "datetime" THEN Raise(st, "TypeError")
              ELSE IF conf.debug /\ date_le_today(st)
                   THEN [st EXCEPT !.ses = Set(@, "STATUS", Str(FallbackStatus))]
              ELSE IF date_le_today(st)
                   THEN add_error(st, Error("STATUS code is blank!", None, ""), conf.debug)
              ELSE st
    ELSE IF ~IsDate(st.ses["STATUS"])
            /\ ~(st.ses["STATUS"].t = "str" /\ st.ses["STATUS"].s \in valid_codes["STATUS"])
         THEN add_error(st, Error("STATUS code is not valid", st.ses["STATUS"], ""),
                        conf.debug)
    ELSE st

\* XLMaster.validate_session: ses is st.ses on return, unless st.exc is set
validate_session(st, stations) ==
    check_status(
      normalise(
        backfill_experiment(
          check_valid_codes(
            check_old_code(
              derive_start(check_time(check_date(check_constrains(check_duplicate(st), 1)))),
              stations),
            1))))

(***************************************************************************)
(* One iteration of the row loop of read_master / read_intensive           *)
(***************************************************************************)
\* read_header's result for the two sheet layouts, by column; "" is a
\* column without header text.  The DELAY column makes line 339-340 idle.
fields_master ==
    <<"", "CODE", "DATE", "TIME", "DUR", "Stat1", "Stat2", "SKED", "STATUS", "DBC", "DELAY",
      "DOY">>

fields_intensive ==
    <<"", "CODE", "DATE", "TIME", "DUR", "STATIONS", "", "SKED", "STATUS", "DBC", "DELAY",
      "DOY">>

\* field.startswith('Stat')
StationFields == {"Stat1", "Stat2"}

\* lines 349-350 / 402-403
with_row(st, rowno) ==
    IF "row" \in DOMAIN st.ses THEN st ELSE [st EXCEPT !.ses = Set(@, "row", Num(rowno))]

\* lines 346-357: the cells of a master row from column i on
RECURSIVE walk_master(_, _, _, _)
walk_master(w, cells, i, rowno) ==
    IF w.st.exc # "" \/ i > Len(cells) THEN w
    ELSE IF cells[i].t = "EmptyCell" THEN walk_master(w, cells, i + 1, rowno)
    ELSE LET field == fields_master[i]
             s1 == with_row(w.st, rowno)
             s2 == IF field = "" THEN s1 ELSE [s1 EXCEPT !.ses = Set(@, field, cells[i])]
             r  == validate_station_info(s2, cells[i], field)
         IN  walk_master(
                 IF field \in StationFields
                 THEN [w EXCEPT !.st = r.st, !.media = Append(@, r.value),
                                !.master = Append(@, r.sta)]
                 ELSE [w EXCEPT !.st = s2],
                 cells, i + 1, rowno)

\* lines 398-412: the cells of an intensive row from column i on
RECURSIVE walk_intensive(_, _, _, _)
walk_intensive(w, cells, i, rowno) ==
    IF w.st.exc # "" \/ i > Len(cells) THEN w
    ELSE IF cells[i].t = "EmptyCell" \/ cells[i] = Str(<<"|">>)
         THEN walk_intensive(w, cells, i + 1, rowno)
    ELSE LET field == IF fields_intensive[i] # "" THEN fields_intensive[i]
                      ELSE w.default_field
             s1 == with_row(w.st, rowno)
             r  == validate_station_info(s1, cells[i], field)
         IN  walk_intensive(
                 IF field = "None" THEN [w EXCEPT !.st = s1]
                 ELSE IF field = "STATIONS"
                 THEN [w EXCEPT !.st = r.st, !.master = Append(@, r.sta),
                                !.default_field = "STATIONS"]
                 ELSE [w EXCEPT !.st = [s1 EXCEPT !.ses = Set(@, field, cells[i])],
                                !.default_field = "None"],
                 cells, i + 1, rowno)

\* not ses.get('DATE', None)
no_date(ses) == ~("DATE" \in DOMAIN ses /\ Truthy(ses["DATE"]))

\* lines 365-366 / 420: the grouped station texts
set_list(st, key, list, n) ==
    IF st.exc # "" THEN st
    ELSE IF format_list(list, n).exc # "" THEN Raise(st, format_list(list, n).exc)
    ELSE [st EXCEPT !.ses = Set(@, key, Str(format_list(list, n).v))]

Min(a, b) == IF a <= b THEN a ELSE b

\* value.astimezone(timezone.utc) of a naive value: local time to UTC
utc(value) == Seconds(value) - conf.utcoffset

\* plausible slip: the cap is left out
delay_nocap(now_end) == days(now_end)

\* line 377: the delay against the clock
delay_now(now_end) == Min(days(now_end), DelayCap)

\* plausible slip: the delay against the status is capped like the other
delay_status_capped(status_end) == Min(days(status_end), DelayCap)

\* line 375: the delay against a timestamp status
delay_status(status_end) == days(status_end)

\* lines 368-377: DELAY of a master session
RECURSIVE set_delay(_)
set_delay(st) ==
    IF st.exc # "" THEN st
    ELSE IF "DELAY" \notin DOMAIN st.ses
         THEN set_delay([st EXCEPT !.ses = Set(@, "DELAY", Num(0))])
    ELSE IF StrLess(conf.year, Year2003) THEN [st EXCEPT !.ses = Set(@, "DELAY", Str(<<>>))]
    ELSE IF "START" \notin DOMAIN st.ses \/ "DUR" \notin DOMAIN st.ses
         THEN Raise(st, "KeyError")
    ELSE IF st.ses["DUR"].t # "num" THEN Raise(st, "TypeError")
    ELSE IF "STATUS" \notin DOMAIN st.ses THEN Raise(st, "KeyError")
    ELSE LET end == utc(st.ses["START"]) + st.ses["DUR"].k
         IN  IF IsDatetime(st.ses["STATUS"])
             THEN [st EXCEPT !.ses = Set(@, "DELAY", Num(delay_status(utc(@["STATUS"]) - end)))]
             ELSE IF IsDate(st.ses["STATUS"]) THEN Raise(st, "AttributeError")
             ELSE [st EXCEPT !.ses = Set(@, "DELAY", Num(delay_now(conf.now - end)))]

Fresh(st) == [st EXCEPT !.ses = <<>>, !.exc = ""]

\* what one iteration did: the attributes it leaves, whether the row was
\* appended, skipped or left by an exception, and the function that raised
Outcome(st, where, skipped, default) ==
    [st |-> st, default_field |-> default,
     where |-> IF st.exc # "" THEN where ELSE "",
     outcome |-> IF st.exc # "" THEN "raised" ELSE IF skipped THEN "skipped" ELSE "appended"]

\* lines 345-379: one row of read_master
read_master_row(st, cells, rowno) ==
    LET w == walk_master([st |-> Fresh(st), master |-> <<>>, media |-> <<>>],
                         cells, 1, rowno)
        v == validate_session(w.st, w.master)
        f == set_list(set_list(v, "master", w.master, 2), "media", w.media, 4)
    IN  IF w.st.exc # "" THEN Outcome(w.st, "validate_station_info", TRUE, "None")
        ELSE IF no_date(w.st.ses) THEN Outcome(w.st, "", TRUE, "None")
        ELSE IF v.exc # "" THEN Outcome(v, "validate_session", FALSE, "None")
        ELSE IF f.exc # "" THEN Outcome(f, "format_list", FALSE, "None")
        ELSE Outcome(set_delay(f), "read_master", FALSE, "None")

\* plausible slip: a DELAY supplied by the sheet is kept
set_intensive_keep(st) ==
    IF st.exc # "" THEN st
    ELSE [st EXCEPT !.ses = Set(IF "DELAY" \in DOMAIN @ THEN @ ELSE Set(@, "DELAY", Num(0)),
                                "MK4NUM", Str(<<>>))]

\* line 421: DELAY and MK4NUM of an intensive session
set_intensive_extras(st) ==
    IF st.exc # "" THEN st
    ELSE [st EXCEPT !.ses = Set(Set(@, "DELAY", Num(0)), "MK4NUM", Str(<<>>))]

\* lines 397-423: one row of read_intensive
read_intensive_row(st, cells, rowno, default) ==
    LET w == walk_intensive([st |-> Fresh(st), master |-> <<>>, default_field |-> default],
                            cells, 1, rowno)
        v == validate_session(w.st, w.master)
        f == set_list(v, "master", w.master, 2)
    IN  IF w.st.exc # "" THEN Outcome(w.st, "validate_station_info", TRUE, w.default_field)
        ELSE IF no_date(w.st.ses) THEN Outcome(w.st, "", TRUE, w.default_field)
        ELSE IF v.exc # "" THEN Outcome(v, "validate_session", FALSE, w.default_field)
        ELSE IF f.exc # "" THEN Outcome(f, "format_list", FALSE, w.default_field)
        ELSE Outcome(set_intensive_extras(f), "", FALSE, w.default_field)

(***************************************************************************)
(* The final sort                                                          *)
(***************************************************************************)
\* plausible slip: a session goes before the sessions of the same START
insert_before_equal(ses, list) ==
    LET k == Cardinality({i \in 1..Len(list) :
                            Seconds(list[i]["START"]) < Seconds(ses["START"])})
    IN  SubSeq(list, 1, k) \o <<ses>> \o SubSeq(list, k + 1, Len(list))

\* list, sorted by START, with ses put after every session that is not later
insert_by_start(ses, list) ==
    LET k == Cardinality({i \in 1..Len(list) :
                            Seconds(list[i]["START"]) <= Seconds(ses["START"])})
    IN  SubSeq(list, 1, k) \o <<ses>> \o SubSeq(list, k + 1, Len(list))

\* sorted(sessions, key=itemgetter('START')): a stable sort
RECURSIVE sorted_by_start(_)
sorted_by_start(list) ==
    IF list = <<>> THEN <<>>
    ELSE insert_by_start(list[Len(list)], sorted_by_start(SubSeq(list, 1, Len(list) - 1)))

(***************************************************************************)
(* The runs: a sheet of at most MaxRows data rows, read row by row         *)
(***************************************************************************)
MaxRows == 2

\* the clock of a run: now (UTC, in seconds), the zone the naive sheet
\* times are taken in, and the local date
Clocks ==
    { [now |-> Seconds(Datetime(2024, 1, 5, 0)), utcoffset |-> 0,
       today |-> Date(2024, 1, 5)],
      [now |-> Seconds(Datetime(2024, 1, 5, 0)), utcoffset |-> 3600,
       today |-> Date(2024, 1, 5)],
      [now |-> Seconds(Datetime(2052, 1, 1, 0)), utcoffset |-> 0,
       today |-> Date(2052, 1, 1)] }

Conf(type, year, debug, clock) ==
    [type |-> type, year |-> year, debug |-> debug, now |-> clock.now,
     utcoffset |-> clock.utcoffset, today |-> clock.today]

Year2024 == <<"2","0","2","4">>

Year2002 == <<"2","0","0","2">>

\* the first clock with both file types, debug on and off, and the years
\* around the cutoffs; the other clocks with a master file of 2024
Confs ==
    {Conf(type, Year2024, debug, clock) :
        type \in {"master", "intensives"}, debug \in BOOLEAN,
        clock \in {c \in Clocks : c.utcoffset = 0 /\ c.today.y = 2024}}
    \cup {Conf("master", year, FALSE, clock) :
            year \in {Year1997, Year2002, Year2003},
            clock \in {c \in Clocks : c.utcoffset = 0 /\ c.today.y = 2024}}
    \cup {Conf("master", Year2024, FALSE, clock) : clock \in Clocks}
    \cup {Conf("intensives", Year2002, FALSE, clock) :
            clock \in {c \in Clocks : c.utcoffset = 0 /\ c.today.y = 2024}}

Col(field) == CHOOSE i \in 1..Len(fields_master) : fields_master[i] = field

With(cells, field, value) == [cells EXCEPT ![Col(field)] = value]

\* a well-formed row: r1 on 2024-01-01 00:00 for 3600, stations WZ and MC
BaseRow ==
    <<EmptyCell, Str(<<"r","1">>), Datetime(2024, 1, 1, 0), Time(0), Num(3600),
      Str(<<"W","Z","1","G">>), Str(<<"M","C","1","G">>), Str(<<"N","V">>),
      Str(<<"o","k">>), Str(<<"X","A">>), EmptyCell, EmptyCell>>

\* rows that differ in session code and start
CodeRows ==
    {With(With(BaseRow, "CODE", Str(c)), "DATE", d) :
        c \in {<<"r","1">>, <<"R","1">>, <<"r","2">>},
        d \in {Datetime(2024, 1, 1, 0), Datetime(2024, 3, 1, 0)}}
    \cup {With(BaseRow, "CODE", Str(<<"r","1","a","b","c","d","e">>))}

\* rows that differ in the first station cell
StationRows ==
    {With(BaseRow, "Stat1", v) :
        v \in {Str(<<"Z","z","1","G">>), Str(<<"W","Z","x","G">>), Str(<<"W","Z","1","x">>),
               Str(<<"Z","z","x","G">>), Str(<<"W","Z">>), Str(<<"W","Z","1">>),
               Str(<<"Z","z","x">>), Str(<<"W"," ","1","G">>), None, Num(12)}}
    \cup {With(With(BaseRow, "Stat1", EmptyCell), "Stat2", EmptyCell)}

\* rows that differ in DATE or TIME
DateRows ==
    {With(BaseRow, "DATE", v) :
        v \in {Str(<<"2","0","2","4">>), Num(45292), None, EmptyCell,
               Datetime(2023, 12, 31, 0)}}
    \cup {With(BaseRow, "TIME", v) : v \in {EmptyCell, None, Str(<<"1","2">>)}}
    \cup {With(With(BaseRow, "DATE", EmptyCell), "Stat1", Str(<<"Z","z","1","G">>))}
    \cup {With(With(BaseRow, "DATE", Datetime(2023, 12, 31, 0)), "CODE", Str(<<"r","2">>))}

\* rows that differ in a length-limited or an enumerated field or in STATUS
FieldRows ==
    {With(BaseRow, "DBC", v) : v \in {EmptyCell, None, Str(<<"X","A","B">>)}}
    \cup {With(BaseRow, "SKED", v) : v \in {EmptyCell, None, Str(<<"z","z">>)}}
    \cup {With(BaseRow, "STATUS", v) :
            v \in {EmptyCell, None, Str(<<"b","a","d">>), Datetime(2024, 1, 10, 0),
                   Datetime(2052, 1, 1, 0)}}
    \cup {With(With(BaseRow, "STATUS", None), "DATE", Datetime(2024, 3, 1, 0))}

\* rows whose CODE cell is empty, with a known and with an unknown station
NoCodeRows ==
    {With(With(BaseRow, "CODE", EmptyCell), "Stat1", v) :
        v \in {Str(<<"W","Z","1","G">>), Str(<<"Z","z","1","G">>)}}

\* rows that supply a DELAY or a DOY of their own
SuppliedRows == {With(BaseRow, "DELAY", Num(7)), With(BaseRow, "DOY", Num(99))}

\* a row with nothing but a station cell, and a row with a cell in the
\* unlabeled first column
UnlabeledRows ==
    {[i \in 1..Len(BaseRow) |-> IF i = 6 THEN Str(<<"W","Z">>) ELSE EmptyCell],
     [BaseRow EXCEPT ![1] = Str(<<"M","C">>)]}

Rows == CodeRows \cup StationRows \cup DateRows \cup FieldRows \cup NoCodeRows
            \cup SuppliedRows \cup UnlabeledRows

NoCall == [fn |-> "none"]

Init ==
    /\ call = NoCall
    /\ conf \in Confs
    /\ has_errors = FALSE
    /\ messages = <<>>
    /\ codes = {}
    /\ appended = <<>>
    /\ sessions = <<>>
    /\ default_field = "None"
    /\ sheet = <<>>
    /\ last = [outcome |-> "none", exc |-> "", where |-> ""]
    /\ pc = "reading"
    /\ result = "none"

\* the attributes a row handler starts from
Attributes ==
    [ses |-> <<>>, messages |-> messages, has_errors |-> has_errors, codes |-> codes,
     exc |-> ""]

\* what one loop iteration leaves behind
Iteration(cells, r) ==
    /\ sheet' = Append(sheet, cells)
    /\ messages' = r.st.messages
    /\ has_errors' = r.st.has_errors
    /\ codes' = r.st.codes
    /\ appended' = IF r.outcome = "appended" THEN Append(appended, r.st.ses) ELSE appended
    /\ default_field' = r.default_field
    /\ last' = [outcome |-> r.outcome, exc |-> r.st.exc, where |-> r.where]
    /\ pc' = IF r.outcome = "raised" THEN "raised" ELSE "reading"
    /\ UNCHANGED <<call, conf, sessions, result>>

\* read_master, lines 344-379: the next row of the sheet
ReadMasterRow ==
    /\ pc = "reading"
    /\ conf.type = "master"
    /\ Len(sheet) < MaxRows
    /\ \E cells \in Rows :
         Iteration(cells, read_master_row(Attributes, cells, Len(sheet) + 2))

\* read_intensive, lines 396-423: the next row of the sheet
ReadIntensiveRow ==
    /\ pc = "reading"
    /\ conf.type = "intensives"
    /\ Len(sheet) < MaxRows
    /\ \E cells \in Rows :
         Iteration(cells,
                   read_intensive_row(Attributes, cells, Len(sheet) + 2, default_field))

\* read_master, lines 381-383, and read_intensive, lines 433-436: after the
\* last row the list is sorted and the flag is returned
SortAndReturn ==
    /\ pc = "reading"
    /\ IF \A i \in 1..Len(appended) : "START" \in DOMAIN appended[i]
       THEN /\ sessions' = sorted_by_start(appended)
            /\ result' = ~has_errors
            /\ pc' = "done"
            /\ last' = last
       ELSE /\ pc' = "raised"
            /\ last' = [outcome |-> "raised", exc |-> "KeyError", where |-> "sorted"]
            /\ UNCHANGED <<sessions, result>>
    /\ UNCHANGED <<call, conf, has_errors, messages, codes, appended, default_field, sheet>>

Next == ReadMasterRow \/ ReadIntensiveRow \/ SortAndReturn

Spec == Init /\ [][Next]_vars

(***************************************************************************)
(* Calls of format_list on bounded token lists                             *)
(***************************************************************************)
MaxTokens == 4

\* cell texts of station columns: well formed, too short, with an inner
\* blank, and longer than four characters
RawTokens ==
    { Blank4,
      <<"W","Z","1","G">>, <<"M","C","1","G">>, <<"A","B","2","G">>,
      <<"W">>, <<"W"," ","1","G">>, <<"W","Z","1">>, <<"w","z","1","G","-">> }

\* the lists read_master / read_intensive pass: sta = value[0:2] with n = 2,
\* the cell text itself with n = 4
TokenLists(n) ==
    UNION { [1..k -> {IF n = 2 THEN Take(t, 2) ELSE t : t \in RawTokens}]
            : k \in 0..MaxTokens }

Pending == [exc |-> "pending", v |-> <<>>]

InitReaderIdle ==
    /\ conf = [type |-> "none"]
    /\ has_errors = FALSE
    /\ messages = <<>>
    /\ codes = {}
    /\ appended = <<>>
    /\ sessions = <<>>
    /\ default_field = "None"
    /\ sheet = <<>>
    /\ last = [outcome |-> "none", exc |-> "", where |-> ""]
    /\ pc = "idle"
    /\ result = "none"

InitFormat ==
    /\ \E n \in {2, 4} : \E stations \in TokenLists(n) :
         call = [fn |-> "format_list", stations |-> stations, n |-> n, ret |-> Pending]
    /\ InitReaderIdle

FormatList ==
    /\ call.fn = "format_list"
    /\ call.ret = Pending
    /\ call' = [call EXCEPT !.ret = format_list(call.stations, call.n)]
    /\ UNCHANGED readerVars

NextFormat == FormatList

SpecFormat == InitFormat /\ [][NextFormat]_vars

(***************************************************************************)
(* format_list: what the grouping is said to be, stated on the token list  *)
(***************************************************************************)
IsBlank(token) == strip(token) = <<>>

\* the longest prefix of non-blank tokens
RECURSIVE LeadingRun(_)
LeadingRun(tokens) ==
    IF tokens = <<>> \/ IsBlank(Head(tokens)) THEN <<>>
    ELSE <<Head(tokens)>> \o LeadingRun(Tail(tokens))

\* the maximal runs of consecutive non-blank tokens, in input order
RECURSIVE Runs(_)
Runs(tokens) ==
    IF tokens = <<>> THEN <<>>
    ELSE IF IsBlank(Head(tokens)) THEN Runs(Tail(tokens))
    ELSE <<LeadingRun(tokens)>> \o Runs(Drop(tokens, Len(LeadingRun(tokens))))

\* a run rendered: its n-character codes sorted as whole codes
RunText(run, n) == Concat(sortedStr([i \in 1..Len(run) |-> Take(run[i], n)]))

RunTexts(tokens, n) == [i \in 1..Len(Runs(tokens)) |-> RunText(Runs(tokens)[i], n)]

HasSep(text) == \E i \in 1..(Len(text) - 1) : text[i] = " " /\ text[i + 1] = "-"

StartsWithSep(text) == Len(text) >= 2 /\ text[1] = " " /\ text[2] = "-"

\* every non-blank token carries a whole n-character code without blanks
WholeCodes(tokens, n) ==
    \A i \in 1..Len(tokens) :
        IsBlank(tokens[i]) \/
        (Len(tokens[i]) >= n /\ \A j \in 1..n : ~isspace(tokens[i][j]))

Returned == call.fn = "format_list" /\ call.ret # Pending

FirstNonBlank == call.stations # <<>> /\ ~IsBlank(call.stations[1])

FirstBlank ==
    /\ call.stations # <<>>
    /\ IsBlank(call.stations[1])
    /\ \E i \in 1..Len(call.stations) : ~IsBlank(call.stations[i])

GroupedAsRuns ==
    /\ call.ret.exc = ""
    /\ call.ret.v = Join(RunTexts(call.stations, call.n), Sep)
    /\ (Len(Runs(call.stations)) = 1 => ~HasSep(call.ret.v))

\* C3 as stated: for every token list whose first token is non-blank the
\* result is the runs of non-blank tokens, each sorted by whole codes, joined
\* by " -", with no " -" when there is one run.
C3_AsStated == (Returned /\ FirstNonBlank) => GroupedAsRuns

\* C3: the same, for token lists whose non-blank tokens each carry at least
\* n characters with no blank among the first n.
C3_GroupedRuns ==
    (Returned /\ FirstNonBlank /\ WholeCodes(call.stations, call.n)) => GroupedAsRuns

\* two runs, one of them reordered by the sort
C3_Witness ==
    /\ Returned /\ FirstNonBlank /\ WholeCodes(call.stations, call.n)
    /\ Len(Runs(call.stations)) = 2
    /\ HasSep(call.ret.v)
    /\ call.ret.v # Join([i \in 1..2 |->
                           Concat([j \in 1..Len(Runs(call.stations)[i]) |->
                                     Take(Runs(call.stations)[i][j], call.n)])], Sep)

BlankFirstText ==
    /\ call.ret.exc = ""
    /\ call.ret.v = Sep \o RunTexts(call.stations, call.n)[1]

\* C4 as stated: a blank first token (with a non-blank token somewhere) gives
\* exactly " -" and the first cluster, sorted; a result starts with " -" only
\* when the first token is blank.
C4_AsStated ==
    /\ (Returned /\ FirstBlank) => BlankFirstText
    /\ (Returned /\ FirstNonBlank) => ~StartsWithSep(call.ret.v)

\* C4: the same, for token lists whose non-blank tokens each carry at least
\* n characters with no blank among the first n.
C4_BlankFirst ==
    WholeCodes(call.stations, call.n) =>
        /\ (Returned /\ FirstBlank) => BlankFirstText
        /\ (Returned /\ FirstNonBlank) => ~StartsWithSep(call.ret.v)

\* blank first slot, then two clusters: only the first one is rendered
C4_Witness ==
    /\ Returned /\ FirstBlank /\ WholeCodes(call.stations, call.n)
    /\ Len(Runs(call.stations)) = 2
    /\ call.ret.v = Sep \o RunText(Runs(call.stations)[1], call.n)
    /\ call.ret.v # Sep \o Join(RunTexts(call.stations, call.n), Sep)

(***************************************************************************)
(* MasterFile.format_field on a DUR value under the pattern %H:%M          *)
(***************************************************************************)
\* str(k) of a non-negative integer
RECURSIVE decimal(_)
decimal(k) == IF k < 10 THEN <<Digit(k)>> ELSE decimal(k \div 10) \o <<Digit(k)>>

\* the text right-justified in width w, filled with ch
RECURSIVE rjust(_, _, _)
rjust(text, w, ch) == IF Len(text) >= w THEN text ELSE rjust(<<ch>> \o text, w, ch)

\* a DUR value is a whole number of sixteenths of an hour: such values and
\* their products with 60 are exact in binary floating point
Sixteenths == 16

\* divmod(value, 1): the whole hours and the remainder, in sixteenths
divmod1(value16) == [hours |-> value16 \div Sixteenths, remainder16 |-> value16 % Sixteenths]

\* plausible slip: the minutes are rounded (half to even) instead of cut
minutes_rounded(remainder16) ==
    LET q == (remainder16 * 60) \div Sixteenths
        r == (remainder16 * 60) % Sixteenths
    IN  IF 2 * r > Sixteenths \/ (2 * r = Sixteenths /\ q % 2 = 1) THEN q + 1 ELSE q

\* int(remainder*60)
minutes(remainder16) == (remainder16 * 60) \div Sixteenths

\* lines 110-113 and 125-126: key DUR, format_spec %H:%M
format_field_DUR(value16) ==
    IF value16 > 0
    THEN rjust(decimal(divmod1(value16).hours), 2, " ") \o <<":">>
            \o rjust(decimal(minutes(divmod1(value16).remainder16)), 2, "0")
    ELSE <<" ", " ", " ", " ", " ">>

MaxDurHours == 6

\* durations from minus one hour to MaxDurHours, and around 100 hours
Durations ==
    (-Sixteenths..(MaxDurHours * Sixteenths))
        \cup {100 * Sixteenths - 1, 100 * Sixteenths, 100 * Sixteenths + 1}

InitField ==
    /\ \E value16 \in Durations :
         call = [fn |-> "format_field", key |-> "DUR", value |-> value16, ret |-> Pending]
    /\ InitReaderIdle

FormatField ==
    /\ call.fn = "format_field"
    /\ call.ret = Pending
    /\ call' = [call EXCEPT !.ret = [exc |-> "", v |-> format_field_DUR(call.value)]]
    /\ UNCHANGED readerVars

NextField == FormatField

SpecField == InitField /\ [][NextField]_vars

(***************************************************************************)
(* Notes.build_text_paragraph (src/masters/notes.py)                       *)
(***************************************************************************)
\* s.startswith(prefix)
startswith(s, prefix) == Len(s) >= Len(prefix) /\ SubSeq(s, 1, Len(prefix)) = prefix

\* s.replace(old, new), old not empty: the occurrences from left to right
RECURSIVE replace(_, _, _)
replace(s, old, new) ==
    IF s = <<>> THEN <<>>
    ELSE IF startswith(s, old) THEN new \o replace(Drop(s, Len(old)), old, new)
    ELSE <<Head(s)>> \o replace(Tail(s), old, new)

\* s.rfind(' '): the 0-based place of the last blank, -1 when there is none
rfind_blank(s) ==
    IF \E i \in 1..Len(s) : s[i] = " "
    THEN (CHOOSE i \in 1..Len(s) : s[i] = " " /\ \A j \in (i + 1)..Len(s) : s[j] # " ") - 1
    ELSE -1

\* s[:k] of Python, k of either sign
slice_to(s, k) ==
    IF k >= 0 THEN Take(s, k)
    ELSE IF Len(s) + k <= 0 THEN <<>> ELSE SubSeq(s, 1, Len(s) + k)

\* s[k:] of Python, k of either sign
slice_from(s, k) ==
    IF k >= 0 THEN Drop(s, k)
    ELSE IF Len(s) + k <= 0 THEN s ELSE SubSeq(s, Len(s) + k + 1, Len(s))

\* Notes.clean_punctuation, lines 142-149
RECURSIVE clean_punctuation(_)
clean_punctuation(line) ==
    LET text == replace(replace(line, <<".", " ", " ">>, <<".", " ">>),
                        <<",", " ", " ">>, <<",", " ">>)
    IN  IF text = line THEN text ELSE clean_punctuation(text)

\* re.match(r'^[A-Z]\s-\s', line)
is_lettered(line) ==
    /\ Len(line) >= 4
    /\ line[1] \in Range(UpperChars)
    /\ isspace(line[2])
    /\ line[3] = "-"
    /\ isspace(line[4])

\* re.match(r'^[1-9]\.\s', line)
is_numbered(line) ==
    /\ Len(line) >= 3
    /\ isdigit(line[1]) /\ line[1] # "0"
    /\ line[2] = "."
    /\ isspace(line[3])

\* Notes.same_paragraph, lines 124-140
same_paragraph(line) ==
    IF is_lettered(line) \/ is_numbered(line) THEN [ok |-> FALSE, line |-> line]
    ELSE LET cleaned == clean_punctuation(line)
         IN  [ok |-> Join(split(cleaned), <<" ">>) = cleaned, line |-> cleaned]

\* Notes.split_comments, lines 113-122, for a width of 1 or more
RECURSIVE split_comments(_, _)
split_comments(text, max_line_length) ==
    IF Len(text) <= max_line_length THEN <<text>>
    ELSE LET index == rfind_blank(slice_to(text, max_line_length))
         IN  <<strip(slice_to(text, index))>>
                \o split_comments(strip(slice_from(text, index)), max_line_length)

\* lines 109-110 and 105-106: the pending paragraph, wrapped
flush(comment, max_line_length) ==
    IF comment = <<>> THEN <<>> ELSE split_comments(Join(comment, <<" ">>), max_line_length)

\* lines 100-111: the loop over the lines and the final flush
RECURSIVE build(_, _, _, _)
build(lines, comment, comments, max_line_length) ==
    IF lines = <<>> THEN comments \o flush(comment, max_line_length)
    ELSE LET r == same_paragraph(Head(lines))
         IN  IF r.ok
             THEN build(Tail(lines), Append(comment, r.line), comments, max_line_length)
             ELSE build(Tail(lines), <<>>,
                        comments \o flush(comment, max_line_length) \o <<r.line>>,
                        max_line_length)

\* Notes.build_text_paragraph, lines 93-111
build_text_paragraph(lines, max_line_length) == build(lines, <<>>, <<>>, max_line_length)

MaxLines == 3

\* lines of a note cell: words, blanks at either end and inside, list
\* items, and punctuation followed by two blanks
NoteLines ==
    { <<>>, <<"a">>, <<"a","a">>, <<"a","a","a">>, <<"a"," ","a">>,
      <<"a","a"," ","a">>, <<"a"," ","a"," ","a">>, <<" ","a">>, <<"a"," ">>,
      <<"a"," "," ","a">>, <<"A"," ","-"," ","a">>, <<"1","."," ","a">>,
      <<"a","."," "," ","a">>, <<"a",","," "," ","a">> }

\* the widths in force after the date column is taken off
Widths == {3, 4, 5, 6}

LineLists == UNION {[1..k -> NoteLines] : k \in 0..MaxLines}

InitNotes ==
    /\ \E lines \in LineLists : \E w \in Widths :
         call = [fn |-> "build_text_paragraph", lines |-> lines, max_line_length |-> w,
                 ret |-> Pending, again |-> Pending]
    /\ InitReaderIdle

\* build_text_paragraph on the lines of a block
BuildTextParagraph ==
    /\ call.fn = "build_text_paragraph"
    /\ call.ret = Pending
    /\ call' = [call EXCEPT
                  !.ret = [exc |-> "",
                           v |-> build_text_paragraph(call.lines, call.max_line_length)]]
    /\ UNCHANGED readerVars

\* build_text_paragraph on the lines the first call returned
BuildTextParagraphAgain ==
    /\ call.fn = "build_text_paragraph"
    /\ call.ret # Pending
    /\ call.again = Pending
    /\ call' = [call EXCEPT
                  !.again = [exc |-> "",
                             v |-> build_text_paragraph(call.ret.v, call.max_line_length)]]
    /\ UNCHANGED readerVars

NextNotes == BuildTextParagraph \/ BuildTextParagraphAgain

SpecNotes == InitNotes /\ [][NextNotes]_vars

(***************************************************************************)
(* XLMaster.write_file and the MasterFile it writes through                *)
(***************************************************************************)
\* strftime('%b') in the C locale
MonthNames ==
    <<"Jan", "Feb", "Mar", "Apr", "May", "Jun", "Jul", "Aug", "Sep", "Oct", "Nov", "Dec">>

strftime_b(value) == MonthNames[value.m]

\* the pieces MasterFile writes, one per call of file.write: the header of
\* line 59, the separator of line 64, the footer of line 70 (a separator
\* line and the version, written as one piece), and the line of a session
HeaderText == [kind |-> "header"]

SeparatorText == [kind |-> "separator"]

FooterText == [kind |-> "footer"]

LineText(ses) == [kind |-> "line", ses |-> ses]

\* MasterFile.__init__ and __enter__, lines 37-42: no month remembered, the
\* file opened with mode 'w+' is empty
NewMasterFile == [month |-> "", file |-> <<>>]

\* line 468: type_id = code if code in self.version else 'master'
type_id(code) == IF code \in {"master", "media"} THEN code ELSE "master"

\* plausible slip: the month of the session just written is not remembered
write_forgets(f, ses) ==
    IF strftime_b(ses["START"]) # f.month
    THEN [month |-> f.month, file |-> f.file \o <<SeparatorText, LineText(ses)>>]
    ELSE [f EXCEPT !.file = Append(@, LineText(ses))]

\* MasterFile.write, lines 73-80
write(f, ses) ==
    IF strftime_b(ses["START"]) # f.month
    THEN [month |-> strftime_b(ses["START"]),
          file |-> f.file \o <<SeparatorText, LineText(ses)>>]
    ELSE [f EXCEPT !.file = Append(@, LineText(ses))]

MaxSessions == 3

\* START of the sessions of a file of 2024: two in January, one in
\* February, one on the last day of the year
Starts ==
    {Datetime(2024, 1, 1, 0), Datetime(2024, 1, 20, 0), Datetime(2024, 2, 3, 0),
     Datetime(2024, 12, 31, 0)}

\* a session as read_master / read_intensive leave it, cut down to the keys
\* write_file and MasterFile.write read
Written(start) ==
    Set(Set(Set(Set(<<>>, "CODE", Str(<<"r">> \o decimal(start.d))), "START", start),
            "master", <<"W", "z">>),
        "media", <<"W", "z", "1", "G">>)

\* self.sessions after a read: sorted by START (lines 382 and 434)
SessionLists ==
    {list \in UNION {[1..n -> {Written(start) : start \in Starts}] : n \in 0..MaxSessions} :
        \A i \in 1..(Len(list) - 1) :
            Seconds(list[i]["START"]) <= Seconds(list[i + 1]["START"])}

\* write_file(self.type) of make_master (line 481), lines 468-469: the
\* MasterFile is made and opened
InitWrite ==
    /\ \E type \in {"master", "intensives"} : \E list \in SessionLists :
         call = [fn |-> "write_file", type |-> type, code |-> type, sessions |-> list,
                 at |-> "header", i |-> 0, f |-> NewMasterFile]
    /\ InitReaderIdle

\* line 470: file.write_header()
WriteHeader ==
    /\ call.fn = "write_file"
    /\ call.at = "header"
    /\ call' = [call EXCEPT !.f.file = Append(@, HeaderText), !.at = "sessions", !.i = 1]
    /\ UNCHANGED readerVars

\* lines 471-473: one turn of the loop over self.sessions
WriteSession ==
    /\ call.fn = "write_file"
    /\ call.at = "sessions"
    /\ call.i <= Len(call.sessions)
    /\ LET session == Set(call.sessions[call.i], "STATIONS",
                          call.sessions[call.i][type_id(call.code)])
       IN  call' = [call EXCEPT !.sessions[call.i] = session,
                                !.f = write(@, session),
                                !.i = @ + 1]
    /\ UNCHANGED readerVars

\* lines 474-475: file.write_footer(), and the file is closed
WriteFooter ==
    /\ call.fn = "write_file"
    /\ call.at = "sessions"
    /\ call.i > Len(call.sessions)
    /\ call' = [call EXCEPT !.f.file = Append(@, FooterText), !.at = "closed"]
    /\ UNCHANGED readerVars

\* make_media, lines 489-491, after make_master: write_file('media') with a
\* MasterFile of its own
MakeMedia ==
    /\ call.fn = "write_file"
    /\ call.at = "closed"
    /\ call.type = "master"
    /\ call.code = "master"
    /\ call' = [call EXCEPT !.code = "media", !.at = "header", !.i = 0,
                            !.f = NewMasterFile]
    /\ UNCHANGED readerVars

NextWrite == WriteHeader \/ WriteSession \/ WriteFooter \/ MakeMedia

SpecWrite == InitWrite /\ [][NextWrite]_vars

(***************************************************************************)
(* MasterFile.format_field on a STATUS value                               *)
(***************************************************************************)
\* str.upper() on the characters the model uses
upper(s) ==
    [i \in 1..Len(s) |->
        IF \E j \in 1..26 : LowerChars[j] = s[i]
        THEN UpperChars[CHOOSE j \in 1..26 : LowerChars[j] = s[i]]
        ELSE s[i]]

\* value.strftime(format_spec), the pattern given as its list of directives
RECURSIVE strftime(_, _)
strftime(value, format_spec) ==
    IF format_spec = <<>> THEN <<>>
    ELSE LET d == Head(format_spec)
             abbr == <<<<"J","a","n">>, <<"F","e","b">>, <<"M","a","r">>,
                     <<"A","p","r">>, <<"M","a","y">>, <<"J","u","n">>,
                     <<"J","u","l">>, <<"A","u","g">>, <<"S","e","p">>,
                     <<"O","c","t">>, <<"N","o","v">>, <<"D","e","c">>>>
             text == IF d = "%b" THEN abbr[value.m]
                     ELSE IF d = "%d" THEN rjust(decimal(value.d), 2, "0")
                     ELSE IF d = "%m" THEN rjust(decimal(value.m), 2, "0")
                     ELSE strftimeY(value)
         IN  text \o strftime(value, Tail(format_spec))

\* format(text, '<{width}s'): a minimum width, filled with blanks on the right
RECURSIVE format_left(_, _)
format_left(text, width) ==
    IF Len(text) >= width THEN text ELSE format_left(text \o <<" ">>, width)

\* lines 114-119 and 125-126, with date.today() = today
format_field_STATUS(value, format_spec, today) ==
    IF IsDatetime(value) THEN upper(strftime(value, format_spec))
    ELSE format_left(IF value = None THEN <<" ">> ELSE value.s,
                     Len(upper(strftime(today, format_spec))))

MaxStatusLen == 6

\* STATUS of a session: a timestamp, no value, or a code of any text
StatusValues ==
    {Datetime(2024, 1, 10, 0), Datetime(2024, 12, 31, 0), None}
    \cup {Str(s) : s \in UNION {[1..n -> {"o", "K"}] : n \in 0..MaxStatusLen}}

\* the patterns of the STATUS column: month name and day, or year month day
StatusPatterns == {<<"%b", "%d">>, <<"%Y", "%m", "%d">>}

InitStatus ==
    /\ \E value \in StatusValues : \E format_spec \in StatusPatterns :
       \E today \in {Date(2024, 1, 5), Date(2024, 11, 30)} :
         call = [fn |-> "format_field", key |-> "STATUS", value |-> value,
                 format_spec |-> format_spec, today |-> today, ret |-> Pending]
    /\ InitReaderIdle

FormatStatus ==
    /\ call.fn = "format_field"
    /\ call.key = "STATUS"
    /\ call.ret = Pending
    /\ call' = [call EXCEPT
                  !.ret = [exc |-> "",
                           v |-> format_field_STATUS(call.value, call.format_spec,
                                                     call.today)]]
    /\ UNCHANGED readerVars

SpecStatus == InitStatus /\ [][FormatStatus]_vars

(***************************************************************************)
(* A Notes object through save_txt and Email.make_notes                    *)
(* (src/masters/notes.py, src/masters/email.py)                            *)
(***************************************************************************)
\* datetime.now().strftime('%B %d') of the run, and the day before
Today == <<"J","a","n","u","a","r","y"," ","0","5">>

Yesterday == <<"J","a","n","u","a","r","y"," ","0","4">>

\* the text cells of a notes table: one line of 39 characters, and two
\* short lines; no line holds 'DRAFT!!'
NoteTexts ==
    { << <<"a","a","a","a"," ","b","b","b","b"," ","c","c","c","c"," ","d","d","d","d"," ",
           "e","e","e","e"," ","f","f","f","f"," ","g","g","g","g"," ","h","h","h","h">> >>,
      << <<"a","a"," ","b","b">>, <<"c","c">> >> }

MaxBlocks == 3

\* notes.blocks as read_docx leaves it, lines 51-57
BlockLists ==
    UNION {[1..n -> [date : {Today, Yesterday, <<>>}, text : NoteTexts]] : n \in 0..MaxBlocks}

\* lines 71 and 81-84: the comments of a block at the width in force, a last
\* line shorter than 10 joined to the line before it
RECURSIVE saved_lines(_, _)
saved_lines(blocks, max_line_length) ==
    IF blocks = <<>> THEN <<>>
    ELSE LET built == build_text_paragraph(Head(blocks).text, max_line_length)
             n == Len(built)
             comments == IF n > 1 /\ Len(built[n]) < 10
                         THEN SubSeq(built, 1, n - 2) \o <<built[n - 1] \o <<" ">> \o built[n]>>
                         ELSE built
         IN  [i \in 1..Len(comments) |->
                 format_left(IF i = 1 THEN Head(blocks).date ELSE <<" ">>, 17) \o comments[i]]
             \o <<<<>>>> \o saved_lines(Tail(blocks), max_line_length)

\* plausible slip: a block that is not accepted leaves the collected ones
RECURSIVE accept_keeping(_, _)
accept_keeping(blocks, accepted) ==
    IF blocks = <<>> THEN accepted
    ELSE IF Head(blocks).date = Today \/ (accepted # <<>> /\ Head(blocks).date = <<>>)
         THEN accept_keeping(Tail(blocks), Append(accepted, Head(blocks)))
    ELSE accept_keeping(Tail(blocks), accepted)

\* make_notes, lines 44-50: the loop over notes.blocks
RECURSIVE accept(_, _)
accept(blocks, accepted) ==
    IF blocks = <<>> THEN accepted
    ELSE IF Head(blocks).date = Today \/ (accepted # <<>> /\ Head(blocks).date = <<>>)
         THEN accept(Tail(blocks), Append(accepted, Head(blocks)))
    ELSE accept(Tail(blocks), <<>>)

\* make_notes, lines 52-60: the lines of the accepted blocks
RECURSIVE email_notes(_, _)
email_notes(accepted, max_line_length) ==
    IF accepted = <<>> THEN <<>>
    ELSE LET comments == build_text_paragraph(Head(accepted).text, max_line_length)
         IN  (IF Head(accepted).date # <<>> THEN <<Head(accepted).date>> ELSE <<>>)
             \o [i \in 1..Len(comments) |-> format_left(<<>>, 15) \o comments[i]]
             \o <<<<>>>> \o email_notes(Tail(accepted), max_line_length)

MaxSaves == 2

\* Notes.__init__, lines 21-31: max_line_length is Notes.max_length, 80, or
\* the MaxLineLength of the document (line 63)
InitMail ==
    /\ \E blocks \in BlockLists : \E w \in {54, 80} :
         call = [fn |-> "notes", blocks |-> blocks, max_line_length |-> w,
                 saved |-> <<>>, mail |-> Pending]
    /\ InitReaderIdle

\* Notes.save_txt, lines 65-90, of a document without title
SaveTxt ==
    /\ call.fn = "notes"
    /\ Len(call.saved) < MaxSaves
    /\ call' = [call EXCEPT
                  !.max_line_length = @ - 17,
                  !.saved = Append(@, saved_lines(call.blocks, call.max_line_length - 17))]
    /\ UNCHANGED readerVars

\* Email.make_notes, lines 37-61
MakeNotes ==
    /\ call.fn = "notes"
    /\ call.mail = Pending
    /\ LET accepted == accept(call.blocks, <<>>)
       IN  call' = [call EXCEPT
                      !.mail = [exc |-> "",
                                v |-> [accepted |-> accepted,
                                       width |-> call.max_line_length,
                                       notes |-> email_notes(accepted,
                                                             call.max_line_length)]]]
    /\ UNCHANGED readerVars

NextMail == SaveTxt \/ MakeNotes

SpecMail == InitMail /\ [][NextMail]_vars

(***************************************************************************)
(* Notes.split_comments and Email.split_comments on one paragraph text     *)
(***************************************************************************)
MaxText == 7

\* paragraph texts: words of the letter a, single and double blanks
Texts == UNION {[1..n -> {"a", " "}] : n \in 0..MaxText}

\* the width is self.max_line_length (notes.py) or Notes.max_length
\* (email.py): here 1 to 4
InitSplit ==
    /\ \E text \in Texts : \E w \in 1..4 :
         call = [fn |-> "split_comments", text |-> text, max_line_length |-> w,
                 ret |-> Pending]
    /\ InitReaderIdle

SplitComments ==
    /\ call.fn = "split_comments"
    /\ call.ret = Pending
    /\ call' = [call EXCEPT
                  !.ret = [exc |-> "", v |-> split_comments(call.text, call.max_line_length)]]
    /\ UNCHANGED readerVars

SpecSplit == InitSplit /\ [][SplitComments]_vars

(***************************************************************************)
(* The recursion of split_comments and of clean_punctuation, one call of   *)
(* the function on itself per step                                         *)
(***************************************************************************)
\* the depth at which Python raises RecursionError, scaled to the texts of
\* the model: above the depth any of them needs when the text gets shorter
RecursionLimit == MaxText + 2

\* texts with punctuation followed by blanks
PunctuatedTexts == UNION {[1..n -> {"a", ".", ",", " "}] : n \in 0..4}

\* the first call: split_comments at a width left by MaxLineLength - 17
\* (lines 63 and 71; 10 leaves -7, 17 leaves 0), or clean_punctuation
InitRecursion ==
    /\ \/ \E text \in Texts : \E w \in {-7, 0, 1, 3} :
            call = [fn |-> "split_comments()", text |-> text, max_line_length |-> w,
                    depth |-> 1, exc |-> "", returned |-> FALSE]
       \/ \E text \in PunctuatedTexts :
            call = [fn |-> "clean_punctuation()", text |-> text, max_line_length |-> 0,
                    depth |-> 1, exc |-> "", returned |-> FALSE]
    /\ InitReaderIdle

\* split_comments, lines 119-122: return, or call itself on the remainder
SplitCall ==
    /\ call.fn = "split_comments()"
    /\ ~call.returned
    /\ call.depth < RecursionLimit
    /\ IF Len(call.text) <= call.max_line_length
       THEN call' = [call EXCEPT !.returned = TRUE]
       ELSE LET index == rfind_blank(slice_to(call.text, call.max_line_length))
            IN  call' = [call EXCEPT !.text = strip(slice_from(call.text, index)),
                                     !.depth = @ + 1]
    /\ UNCHANGED readerVars

\* clean_punctuation, lines 148-149: return, or call itself on the new text
CleanCall ==
    /\ call.fn = "clean_punctuation()"
    /\ ~call.returned
    /\ call.depth < RecursionLimit
    /\ LET text == replace(replace(call.text, <<".", " ", " ">>, <<".", " ">>),
                           <<",", " ", " ">>, <<",", " ">>)
       IN  IF text = call.text
           THEN call' = [call EXCEPT !.returned = TRUE]
           ELSE call' = [call EXCEPT !.text = text, !.depth = @ + 1]
    /\ UNCHANGED readerVars

\* the interpreter ends a recursion that reaches its limit
RecursionError ==
    /\ call.fn \in {"split_comments()", "clean_punctuation()"}
    /\ ~call.returned
    /\ call.depth = RecursionLimit
    /\ call' = [call EXCEPT !.exc = "RecursionError", !.returned = TRUE]
    /\ UNCHANGED readerVars

NextRecursion == SplitCall \/ CleanCall \/ RecursionError

SpecRecursion == InitRecursion /\ [][NextRecursion]_vars

(***************************************************************************)
(* The two renderers: MasterFile.format_field (master.py) and              *)
(* HTMLFormatter.format_field (reqsched.py) on one value                   *)
(***************************************************************************)
\* str(k) of an integer
signed(k) == IF k < 0 THEN <<"-">> \o decimal(-k) ELSE decimal(k)

Returns(text) == [exc |-> "", v |-> text]

\* master.py lines 107-126, the fields DATE, DUR with %H:%M, STATUS and
\* DELAY with the format '{width}d'
plain_format_field(key, value, format_spec, today) ==
    IF key = "DATE" THEN Returns(upper(strftime(value, format_spec)))
    ELSE IF key = "DUR" THEN Returns(format_field_DUR(value))
    ELSE IF key = "STATUS" THEN Returns(format_field_STATUS(value, format_spec, today))
    ELSE IF value.t = "num" THEN Returns(rjust(signed(value.k), format_spec, " "))
    ELSE Returns(format_left(IF value = None THEN <<" ">> ELSE value.s, format_spec))

\* reqsched.py lines 311-328, the same fields: DUR without the test of
\* value > 0, no branch for DELAY, both ends stripped
html_format_field(key, value, format_spec, today) ==
    IF key = "DATE" THEN Returns(strip(upper(strftime(value, format_spec))))
    ELSE IF key = "DUR"
         THEN Returns(strip(rjust(signed(divmod1(value).hours), 2, " ") \o <<":">>
                 \o rjust(decimal(minutes(divmod1(value).remainder16)), 2, "0")))
    ELSE IF key = "STATUS"
         THEN Returns(strip(format_field_STATUS(value, format_spec, today)))
    ELSE IF value.t = "num" THEN Returns(strip(rjust(signed(value.k), format_spec, " ")))
    ELSE [exc |-> "ValueError", v |-> <<>>]

MaxDelay == 12

\* a field, a value of it and its format: dates and status under %b%d,
\* durations in sixteenths of an hour, DELAY in a column of 4
Renderings ==
    [key : {"DATE"}, value : {Datetime(2024, 1, 10, 0), Datetime(2024, 12, 31, 0)},
     format_spec : {<<"%b", "%d">>}]
    \cup [key : {"DUR"}, value : Durations, format_spec : {<<"%H", ":", "%M">>}]
    \cup [key : {"STATUS"},
          value : {v \in StatusValues : v.t = "str" => Len(v.s) <= 3},
          format_spec : {<<"%b", "%d">>}]
    \cup [key : {"DELAY"},
          value : {Num(k) : k \in -1..MaxDelay} \cup {Num(DelayCap), Str(<<>>), None},
          format_spec : {4}]

InitRender ==
    /\ \E r \in Renderings :
         call = [fn |-> "render", key |-> r.key, value |-> r.value,
                 format_spec |-> r.format_spec, today |-> Date(2024, 1, 5),
                 plain |-> Pending, html |-> Pending]
    /\ InitReaderIdle

PlainFormatField ==
    /\ call.fn = "render"
    /\ call.plain = Pending
    /\ call' = [call EXCEPT
                  !.plain = plain_format_field(call.key, call.value, call.format_spec,
                                               call.today)]
    /\ UNCHANGED readerVars

HtmlFormatField ==
    /\ call.fn = "render"
    /\ call.html = Pending
    /\ call' = [call EXCEPT
                  !.html = html_format_field(call.key, call.value, call.format_spec,
                                             call.today)]
    /\ UNCHANGED readerVars

NextRender == PlainFormatField \/ HtmlFormatField

SpecRender == InitRender /\ [][NextRender]_vars

(***************************************************************************)
(* ScheduleRequest.build                                                   *)
(***************************************************************************)
\* sta_id in ses['master']: the text holds sta_id as a substring
contains(text, sub) ==
    \E i \in 1..(Len(text) - Len(sub) + 1) : SubSeq(text, i, i + Len(sub) - 1) = sub

\* lines 83-88: the sessions from the i-th on, looked up for one antenna
RECURSIVE list_sessions(_, _, _)
list_sessions(b, sta_id, i) ==
    IF i > Len(b.sessions) THEN b
    ELSE IF contains(b.sessions[i].master, sta_id)
         THEN LET ses == [b.sessions[i] EXCEPT !.rec = b.rec + 1,
                                               !.STATIONS = b.sessions[i].master]
              IN  list_sessions([b EXCEPT !.rec = b.rec + 1,
                                          !.sessions[i] = ses,
                                          !.lines = Append(@, [kind |-> "session",
                                                               name |-> <<>>,
                                                               ses |-> i,
                                                               rec |-> ses.rec,
                                                               STATIONS |-> ses.STATIONS])],
                                 sta_id, i + 1)
         ELSE list_sessions(b, sta_id, i + 1)

NoSession == [ses |-> 0, rec |-> 0, STATIONS |-> <<>>]

Line(kind, name) == [kind |-> kind, name |-> name] @@ NoSession

\* lines 80-89: the antennas from the k-th on, in the order of the dictionary
RECURSIVE list_antennas(_, _, _)
list_antennas(b, antennas, k) ==
    IF k > Len(antennas) THEN b
    ELSE LET begun  == [b EXCEPT !.lines = Append(@, Line("antenna_begin", antennas[k])),
                                 !.rec = 0]
             listed == list_sessions(begun, antennas[k], 1)
         IN  list_antennas([listed EXCEPT !.lines = Append(@, Line("antenna_end", <<>>))],
                           antennas, k + 1)

\* build: the lines of the message and the sessions as it leaves them
request_build(antennas, master_sessions) ==
    LET b == list_antennas([lines |-> <<Line("body_begin", <<>>), Line("body_text", <<>>)>>,
                            sessions |-> master_sessions, rec |-> 0], antennas, 1)
    IN  [lines |-> Append(b.lines, Line("body_end", <<>>)), sessions |-> b.sessions]

(***************************************************************************)
(* Calls of build on the antennas of an agency and the sessions of a file  *)
(***************************************************************************)
MaxStations == 3

MaxListed == 2

\* the master texts of rows of up to MaxStations station cells
MasterTexts ==
    {format_list(l, 2).v :
        l \in {s \in UNION {[1..k -> {<<"W","Z">>, <<"M","C">>, <<"A","B">>, <<" "," ">>}]
                            : k \in 1..MaxStations} : format_list(s, 2).exc = ""}}

\* the antennas of an agency: one or two codes, as agencies.toml lists them
AntennaLists ==
    {<<a>> : a \in {<<"W","Z">>, <<"M","C">>, <<"C","W">>}}
    \cup {<<a, b>> : a \in {<<"W","Z">>, <<"C","W">>}, b \in {<<"M","C">>, <<"A","B">>}}

InitRequest ==
    /\ \E antennas \in AntennaLists :
       \E texts \in UNION {[1..k -> MasterTexts] : k \in 0..MaxListed} :
         call = [fn |-> "build", antennas |-> antennas,
                 sessions |-> [i \in 1..Len(texts) |->
                                 [master |-> texts[i], rec |-> 0, STATIONS |-> <<>>]],
                 lines |-> <<>>, built |-> FALSE]
    /\ InitReaderIdle

Build ==
    /\ call.fn = "build"
    /\ ~call.built
    /\ call' = [call EXCEPT !.lines = request_build(call.antennas, call.sessions).lines,
                            !.sessions = request_build(call.antennas, call.sessions).sessions,
                            !.built = TRUE]
    /\ UNCHANGED readerVars

NextRequest == Build

SpecRequest == InitRequest /\ [][NextRequest]_vars

(***************************************************************************)
(* Properties of a run of read_master / read_intensive                     *)
(***************************************************************************)
\* the sheet row (2, 3, ...) of the k-th data row
RowNo(k) == k + 1

\* the k-th data row went through the station columns and has a DATE, so
\* validate_session was called on it
Validated(k) ==
    /\ k \in 1..Len(sheet)
    /\ sheet[k][Col("DATE")] # EmptyCell
    /\ Truthy(sheet[k][Col("DATE")])
    /\ (k = Len(sheet) => last.where # "validate_station_info")

\* the messages of a kind recorded for the k-th data row
MessagesOf(kind, k) ==
    {i \in 1..Len(messages) : messages[i].error.kind = kind /\ messages[i].row = RowNo(k)}

HasCode(k) == sheet[k][Col("CODE")].t = "str"

CodeOf(k) == sheet[k][Col("CODE")].s

\* C1: after read_master or read_intensive the session list holds the
\* appended sessions in non-decreasing order of START, and sessions of equal
\* START stand in the order of their rows in the sheet.
C1_SortedStable ==
    pc = "done" =>
        /\ Len(sessions) = Len(appended)
        /\ {sessions[i] : i \in 1..Len(sessions)} = {appended[i] : i \in 1..Len(appended)}
        /\ \A i, j \in 1..Len(sessions) :
             i < j =>
               /\ Seconds(sessions[i]["START"]) <= Seconds(sessions[j]["START"])
               /\ Seconds(sessions[i]["START"]) = Seconds(sessions[j]["START"])
                    => sessions[i]["row"].k < sessions[j]["row"].k

\* a finished run with two sessions of the same START
C1_Witness ==
    /\ pc = "done"
    /\ Len(sessions) = 2
    /\ Seconds(sessions[1]["START"]) = Seconds(sessions[2]["START"])
    /\ sessions[1]["row"].k < sessions[2]["row"].k

\* C2: a validated row gets a 'duplicate session name' error exactly when an
\* earlier validated row carried the same code up to letter case (so a first
\* occurrence is never flagged), no other row gets one, and a row whose only
\* defect is its code is still appended after being flagged.
C2_Duplicates ==
    \A k \in 1..Len(sheet) :
        /\ (Validated(k) /\ HasCode(k)) =>
             (Cardinality(MessagesOf("duplicate session name", k)) =
                IF \E j \in 1..(k - 1) :
                      Validated(j) /\ HasCode(j) /\ lower(CodeOf(j)) = lower(CodeOf(k))
                THEN 1 ELSE 0)
        /\ ~(Validated(k) /\ HasCode(k)) => MessagesOf("duplicate session name", k) = {}
        /\ (MessagesOf("duplicate session name", k) # {} /\ sheet[k] \in CodeRows)
             => \E i \in 1..Len(appended) : appended[i]["row"].k = RowNo(k)

\* r1 then R1: the second row is flagged, the first is not, both are kept
C2_Witness ==
    /\ pc = "done"
    /\ Len(sheet) = 2
    /\ CodeOf(1) # CodeOf(2)
    /\ lower(CodeOf(1)) = lower(CodeOf(2))
    /\ MessagesOf("duplicate session name", 1) = {}
    /\ MessagesOf("duplicate session name", 2) # {}
    /\ Len(sessions) = 2

\* the station columns of the k-th data row: the Stat columns of a master
\* sheet; in an intensive sheet the STATIONS column and, when that cell is
\* not empty, the unnamed column after it
StationCols(k) ==
    IF conf.type = "master" THEN {i \in 1..Len(fields_master) : fields_master[i] \in StationFields}
    ELSE {i \in 1..Len(fields_intensive) :
            \/ fields_intensive[i] = "STATIONS"
            \/ /\ i > 1
               /\ fields_intensive[i] = ""
               /\ fields_intensive[i - 1] = "STATIONS"
               /\ sheet[k][i - 1] # EmptyCell}

HdrOf(c) == IF conf.type = "master" THEN fields_master[c] ELSE "STATIONS"

FirstStationCol(k) == CHOOSE c \in StationCols(k) : \A d \in StationCols(k) : c <= d

\* a station cell holding text that is not all blanks
NonBlankToken(cell) == cell.t = "str" /\ strip(cell.s) # <<>>

\* the cell was handed to validate_station_info: it is the first station
\* cell of its row, or no station cell of the row raised
Called(k, c) ==
    \/ c = FirstStationCol(k)
    \/ k < Len(sheet)
    \/ last.where # "validate_station_info"

\* the text passes the media test of a master sheet; an intensive sheet has none
OtherwiseValid(s) ==
    conf.type = "master" => (Len(s) >= 4 /\ isdigit(s[3]) /\ s[4] \in media_sizes)

\* the messages validate_station_info recorded about the cell
About(kind, k, c) ==
    {i \in MessagesOf(kind, k) :
        /\ messages[i].error.hdr = HdrOf(c)
        /\ messages[i].error.arg \in {Str(sheet[k][c].s), Str(Take(sheet[k][c].s, 2))}}

StationMessages(k, c) ==
    About("invalid station code", k, c) \cup About("invalid information", k, c)

\* C5: a non-blank station token, otherwise valid, whose first two
\* characters are not a station code gets exactly one ERROR message, which
\* names the two characters, the session code and the sheet row, and the
\* failure flag is set; a token whose first two characters are a station
\* code gets no 'invalid station code' message.
C5_AsStated ==
    \A k \in 1..Len(sheet) : \A c \in StationCols(k) :
        (NonBlankToken(sheet[k][c]) /\ Called(k, c)) =>
            LET s   == sheet[k][c].s
                sta == Take(s, 2)
            IN  /\ (sta \notin ns_codes /\ OtherwiseValid(s)) =>
                     /\ Cardinality(StationMessages(k, c)) = 1
                     /\ \A i \in StationMessages(k, c) :
                          /\ messages[i].type = "ERROR"
                          /\ messages[i].error.kind = "invalid station code"
                          /\ messages[i].error.arg = Str(sta)
                          /\ messages[i].code = sheet[k][Col("CODE")]
                          /\ messages[i].row = RowNo(k)
                     /\ has_errors
                /\ sta \in ns_codes => About("invalid station code", k, c) = {}

\* the same for the rows that carry a session code
C5_WithSessionCode ==
    \A k \in 1..Len(sheet) : \A c \in StationCols(k) :
        (NonBlankToken(sheet[k][c]) /\ Called(k, c) /\ HasCode(k)) =>
            LET s   == sheet[k][c].s
                sta == Take(s, 2)
            IN  /\ (sta \notin ns_codes /\ OtherwiseValid(s)) =>
                     /\ Cardinality(StationMessages(k, c)) = 1
                     /\ \A i \in StationMessages(k, c) :
                          /\ messages[i].type = "ERROR"
                          /\ messages[i].error.kind = "invalid station code"
                          /\ messages[i].error.arg = Str(sta)
                          /\ messages[i].code = sheet[k][Col("CODE")]
                          /\ messages[i].row = RowNo(k)
                     /\ has_errors
                /\ sta \in ns_codes => About("invalid station code", k, c) = {}

\* a row without a session code whose first station is unknown: add_error
\* left by a KeyError, the flag set and no message recorded
C5_Witness ==
    /\ Len(sheet) = 1
    /\ ~HasCode(1)
    /\ NonBlankToken(sheet[1][FirstStationCol(1)])
    /\ Take(sheet[1][FirstStationCol(1)].s, 2) \notin ns_codes
    /\ last = [outcome |-> "raised", exc |-> "KeyError", where |-> "validate_station_info"]
    /\ has_errors
    /\ messages = <<>>

\* C6: in a master sheet a non-blank station token of any length gets an
\* 'invalid information' message exactly when its third character is not a
\* digit or its fourth is not a media size, a token too short to have them
\* included; the validator returns instead of failing the row; in an
\* intensive sheet no such message is recorded.  (Stated for the rows that
\* carry a session code.)
C6_AsStated ==
    \A k \in 1..Len(sheet) : \A c \in StationCols(k) :
        (NonBlankToken(sheet[k][c]) /\ Called(k, c) /\ HasCode(k)) =>
            /\ conf.type = "master" =>
                 Cardinality(About("invalid information", k, c)) =
                    IF OtherwiseValid(sheet[k][c].s) THEN 0 ELSE 1
            /\ conf.type # "master" => About("invalid information", k, c) = {}
            /\ ~(k = Len(sheet) /\ last.where = "validate_station_info")

\* the same for the tokens of three characters or more whose third
\* character is not a digit, or of four or more
C6_LongEnough ==
    \A k \in 1..Len(sheet) : \A c \in StationCols(k) :
        (/\ NonBlankToken(sheet[k][c]) /\ Called(k, c) /\ HasCode(k)
         /\ \/ conf.type # "master"
            \/ Len(sheet[k][c].s) >= 4
            \/ Len(sheet[k][c].s) = 3 /\ ~isdigit(sheet[k][c].s[3])) =>
            /\ conf.type = "master" =>
                 Cardinality(About("invalid information", k, c)) =
                    IF OtherwiseValid(sheet[k][c].s) THEN 0 ELSE 1
            /\ conf.type # "master" => About("invalid information", k, c) = {}
            /\ ~(k = Len(sheet) /\ last.where = "validate_station_info")

\* a master row with a session code and a station text of two or three
\* characters: the media test left by an IndexError, nothing recorded
C6_Witness ==
    /\ conf.type = "master"
    /\ Len(sheet) = 1
    /\ HasCode(1)
    /\ NonBlankToken(sheet[1][FirstStationCol(1)])
    /\ Len(sheet[1][FirstStationCol(1)].s) < 4
    /\ last = [outcome |-> "raised", exc |-> "IndexError", where |-> "validate_station_info"]
    /\ messages = <<>>
    /\ ~has_errors

\* C7: validate_session never raises: for every record with a DATE it
\* returns, whatever the DATE, the TIME and the length-limited and
\* enumerated fields hold.
C7_AsStated == ~(last.outcome = "raised" /\ last.where = "validate_session")

\* a record whose DATE is text: 'invalid DATE' is recorded and the year test
\* of the DATE then raises
C7_Witness ==
    /\ Len(sheet) = 1
    /\ sheet[1][Col("DATE")].t = "str"
    /\ last = [outcome |-> "raised", exc |-> "AttributeError", where |-> "validate_session"]
    /\ MessagesOf("invalid DATE", 1) # {}

\* rows that are well formed but for the DATE or the TIME
DateTimeRows == CodeRows \cup DateRows

\* C8: a sheet whose rows are well formed but for DATE or TIME is scanned
\* to its last row, the delays are computed, the list is sorted and a flag
\* is returned: the run never ends in an exception.
C8_AsStated ==
    (\A k \in 1..Len(sheet) : sheet[k] \in DateTimeRows) => pc # "raised"

\* a row whose TIME is not a time: validate_session records 'invalid TIME'
\* and returns a session without START, and the delay computation or the
\* sort raises KeyError
C8_Witness ==
    /\ Len(sheet) = 1
    /\ sheet[1][Col("TIME")].t \in {"None", "str"}
    /\ MessagesOf("invalid TIME", 1) # {}
    /\ pc = "raised"
    /\ last.exc = "KeyError"
    /\ last.where \in {"read_master", "sorted"}

\* an error recorded with the debug downgrade: the two STATUS errors of a
\* debug run
Downgraded(msg) ==
    /\ conf.debug
    /\ msg.error.kind \in {"STATUS code is blank!", "STATUS code is not valid"}

\* C9: the failure flag is set exactly when an error has been recorded
\* without debug downgrade, and read_master / read_intensive return success
\* exactly when the flag is not set.
C9_AsStated ==
    /\ has_errors <=> \E i \in 1..Len(messages) : ~Downgraded(messages[i])
    /\ pc = "done" => (result <=> ~has_errors)

\* the same while no add_error call has been left by an exception
C9_WhileReported ==
    ~(last.exc = "KeyError" /\ last.where = "validate_station_info") =>
        /\ has_errors <=> \E i \in 1..Len(messages) : ~Downgraded(messages[i])
        /\ pc = "done" => (result <=> ~has_errors)

\* once set, the flag stays set
C9_NeverCleared == [][has_errors => has_errors']_vars

\* after a clean row, a row without session code and with an unknown
\* station: the flag is set and no error is recorded
C9_Witness ==
    /\ Len(sheet) = 2
    /\ sheet[1] = BaseRow
    /\ ~HasCode(2)
    /\ pc = "raised"
    /\ has_errors
    /\ messages = <<>>

\* the cells of the sheet row a session was read from
CellsOf(ses) == sheet[ses["row"].k - 1]

\* start + duration of the row, as an instant in UTC seconds: the DATE and
\* TIME cells taken in the zone of the run, plus the DUR cell
EndOf(cells) ==
    Seconds(combine(cells[Col("DATE")], cells[Col("TIME")])) - conf.utcoffset
        + cells[Col("DUR")].k

\* C10: in a master file of 2003 or later, a session whose status is not a
\* timestamp has DELAY = min(whole days of (now - (start + duration)), 9999),
\* hence at most 9999; start 2024-01-01T00:00Z, duration 3600 s and now
\* 2024-01-05T00:00Z give 3.
C10_DelayCapped ==
    (conf.type = "master" /\ ~StrLess(conf.year, Year2003)) =>
        \A i \in 1..Len(appended) :
            LET ses   == appended[i]
                cells == CellsOf(ses)
                whole == (conf.now - EndOf(cells)) \div SecondsPerDay
            IN  ~IsDatetime(cells[Col("STATUS")]) =>
                    /\ ses["DELAY"] = Num(IF whole < 9999 THEN whole ELSE 9999)
                    /\ ses["DELAY"].k <= 9999
                    /\ (/\ conf.now = Seconds(Datetime(2024, 1, 5, 0))
                        /\ conf.utcoffset = 0
                        /\ cells[Col("DATE")] = Datetime(2024, 1, 1, 0)
                        /\ cells[Col("TIME")] = Time(0)
                        /\ cells[Col("DUR")] = Num(3600)) => ses["DELAY"] = Num(3)

\* a session that ended more than 9999 days before now: its DELAY is 9999
C10_Witness ==
    /\ conf.type = "master"
    /\ ~StrLess(conf.year, Year2003)
    /\ \E i \in 1..Len(appended) :
         /\ ~IsDatetime(CellsOf(appended[i])[Col("STATUS")])
         /\ (conf.now - EndOf(CellsOf(appended[i]))) \div SecondsPerDay > 9999
         /\ appended[i]["DELAY"] = Num(9999)

\* the status of the row as an instant in UTC seconds, taken in the zone of
\* the run like the start
StatusOf(cells) == Seconds(cells[Col("STATUS")]) - conf.utcoffset

\* the row of the example: start 2024-01-01 00:00, 3600 s, status 2024-01-10 00:00
IsStatusExample(cells) ==
    /\ cells[Col("DATE")] = Datetime(2024, 1, 1, 0)
    /\ cells[Col("TIME")] = Time(0)
    /\ cells[Col("DUR")] = Num(3600)
    /\ cells[Col("STATUS")] = Datetime(2024, 1, 10, 0)

\* DELAY of every session with a timestamp status is the whole days of
\* (status - (start + duration)), and the example row has the given delay
StatusDelayIs(example) ==
    (conf.type = "master" /\ ~StrLess(conf.year, Year2003)) =>
        \A i \in 1..Len(appended) :
            LET ses   == appended[i]
                cells == CellsOf(ses)
            IN  IsDatetime(cells[Col("STATUS")]) =>
                    /\ ses["DELAY"] =
                         Num((StatusOf(cells) - EndOf(cells)) \div SecondsPerDay)
                    /\ IsStatusExample(cells) => ses["DELAY"] = Num(example)

\* C11 as stated: in a master file of 2003 or later a session with a
\* timestamp status has DELAY = whole days of (status - (start + duration)),
\* whatever now is and without cap, and start 2024-01-01T00:00Z, duration
\* 3600 s, status 2024-01-10T00:00Z give 5.
C11_AsStated == StatusDelayIs(5)

\* C11 amended: the same with the example giving 8, the whole days of
\* 8 days 23 hours.
C11_StatusDelay == StatusDelayIs(8)

\* a session whose status lies more than 9999 days after its end, read at a
\* now that lies before the status: the delay is not capped
C11_Witness ==
    /\ conf.type = "master"
    /\ ~StrLess(conf.year, Year2003)
    /\ \E i \in 1..Len(appended) :
         /\ IsDatetime(CellsOf(appended[i])[Col("STATUS")])
         /\ conf.now < StatusOf(CellsOf(appended[i]))
         /\ appended[i]["DELAY"].k > 9999
         /\ appended[i]["DELAY"].k =
              (StatusOf(CellsOf(appended[i])) - EndOf(CellsOf(appended[i]))) \div SecondsPerDay

\* the day count of a row in a file with delays: against the status when
\* that is a timestamp, against now and capped otherwise
DayCount(cells) ==
    IF IsDatetime(cells[Col("STATUS")])
    THEN (StatusOf(cells) - EndOf(cells)) \div SecondsPerDay
    ELSE LET whole == (conf.now - EndOf(cells)) \div SecondsPerDay
         IN  IF whole < 9999 THEN whole ELSE 9999

Blank == Str(<<>>)

\* C12 as stated: in either variant DELAY is blank exactly when the year of
\* the file is before 2003, and from 2003 on it is the day count of the
\* session, whatever DELAY the sheet supplied.
C12_AsStated ==
    \A i \in 1..Len(appended) :
        /\ appended[i]["DELAY"] = Blank <=> StrLess(conf.year, Year2003)
        /\ ~StrLess(conf.year, Year2003) =>
             appended[i]["DELAY"] = Num(DayCount(CellsOf(appended[i])))

\* C12 amended: that holds for the master variant; in an intensive file
\* DELAY is 0 for every session, whatever the year and whatever the sheet
\* supplied.
C12_DelayByVariant ==
    \A i \in 1..Len(appended) :
        /\ conf.type = "master" =>
             /\ appended[i]["DELAY"] = Blank <=> StrLess(conf.year, Year2003)
             /\ ~StrLess(conf.year, Year2003) =>
                  appended[i]["DELAY"] = Num(DayCount(CellsOf(appended[i])))
        /\ conf.type = "intensives" => appended[i]["DELAY"] = Num(0)

\* an intensive file of 2002 whose sheet supplies a DELAY: the session has 0
C12_Witness ==
    /\ conf.type = "intensives"
    /\ StrLess(conf.year, Year2003)
    /\ \E i \in 1..Len(appended) :
         /\ CellsOf(appended[i])[Col("DELAY")] = Num(7)
         /\ appended[i]["DELAY"] = Num(0)

\* days of the year before each month of a common year
CommonYearOffsets == <<0, 31, 59, 90, 120, 151, 181, 212, 243, 273, 304, 334>>

\* the day of the year of a calendar date, counted from the table
OrdinalDay(value) ==
    CommonYearOffsets[value.m] + value.d
        + (IF value.m > 2 /\ value.y % 4 = 0 /\ (value.y % 100 # 0 \/ value.y % 400 = 0)
           THEN 1 ELSE 0)

\* the messages recorded for the k-th data row
AllMessagesOf(k) == {i \in 1..Len(messages) : messages[i].row = RowNo(k)}

DateValid(cells) ==
    /\ IsDatetime(cells[Col("DATE")])
    /\ strftimeY(cells[Col("DATE")]) = conf.year

\* the TIME cell is a time of day
TimeValid(cells) == cells[Col("TIME")] # EmptyCell /\ IsTime(cells[Col("TIME")])

\* validate_session was entered for the last row and did not return
Aborted(k) ==
    /\ k = Len(sheet)
    /\ last.outcome = "raised"
    /\ last.where = "validate_session"

\* C16: START is derived exactly when DATE is a date of the file's year and
\* TIME is a time of day; a row failing either has an error recorded, its
\* validation is not aborted, and its START is left underived.
C16_AsStated ==
    /\ \A i \in 1..Len(appended) :
         "START" \in DOMAIN appended[i]
            <=> (DateValid(CellsOf(appended[i])) /\ TimeValid(CellsOf(appended[i])))
    /\ \A k \in 1..Len(sheet) :
         (Validated(k) /\ HasCode(k)) =>
            /\ ~DateValid(sheet[k]) =>
                  (MessagesOf("invalid DATE", k) # {} /\ ~Aborted(k))
            /\ ~TimeValid(sheet[k]) =>
                  (MessagesOf("invalid TIME", k) # {} /\ ~Aborted(k))

\* a session whose DATE is of another year than the file's, reported as
\* invalid, and listed with a START all the same
C16_Witness ==
    \E i \in 1..Len(appended) :
        /\ IsDatetime(CellsOf(appended[i])[Col("DATE")])
        /\ ~DateValid(CellsOf(appended[i]))
        /\ MessagesOf("invalid DATE", appended[i]["row"].k - 1) # {}
        /\ "START" \in DOMAIN appended[i]

\* the file is a master schedule of a year after 1997
StatusChecked == conf.type = "master" /\ StrLess(Year1997, conf.year)

StatusCell(k) == sheet[k][Col("STATUS")]

BlankStatus(k) == StatusCell(k) = EmptyCell \/ ~Truthy(StatusCell(k))

StatusErrorsOf(k) ==
    MessagesOf("STATUS code is blank!", k) \cup MessagesOf("STATUS code is not valid", k)

\* the date of the k-th row is today or earlier
OnOrBeforeToday(k) == toordinal(sheet[k][Col("DATE")]) <= toordinal(conf.today)

InStatusTable(value) == value.t = "str" /\ value.s \in valid_codes["STATUS"]

\* the STATUS rules on the k-th row, outside debug mode
StatusRule(k) ==
    IF ~StatusChecked THEN StatusErrorsOf(k) = {}
    ELSE IF BlankStatus(k)
         THEN /\ MessagesOf("STATUS code is blank!", k) # {} <=> OnOrBeforeToday(k)
              /\ OnOrBeforeToday(k) => has_errors
              /\ MessagesOf("STATUS code is not valid", k) = {}
    ELSE IF IsDate(StatusCell(k)) THEN StatusErrorsOf(k) = {}
    ELSE /\ MessagesOf("STATUS code is not valid", k) # {} <=> ~InStatusTable(StatusCell(k))
         /\ MessagesOf("STATUS code is blank!", k) = {}

\* C17: outside debug mode, in a master file after the cutoff year, a blank
\* STATUS is an error exactly when the session date is today or earlier, a
\* STATUS that is not a timestamp is an error exactly when it is not in the
\* table, a timestamp is never an error; other files get no status error.
C17_AsStated ==
    \A k \in 1..Len(sheet) :
        (/\ ~conf.debug
         /\ Validated(k)
         /\ HasCode(k)
         /\ IsDatetime(sheet[k][Col("DATE")])) => StatusRule(k)

\* the same on the rows whose validation returned
C17_WhereReturned ==
    \A k \in 1..Len(sheet) :
        (/\ ~conf.debug
         /\ Validated(k)
         /\ HasCode(k)
         /\ IsDatetime(sheet[k][Col("DATE")])
         /\ ~Aborted(k)) => StatusRule(k)

\* a row with an empty STATUS cell and a date before today in a master file
\* of 2024: validation has ended and no status error is recorded
C17_Witness ==
    /\ ~conf.debug
    /\ StatusChecked
    /\ Len(sheet) = 1
    /\ sheet[1] = With(BaseRow, "STATUS", EmptyCell)
    /\ OnOrBeforeToday(1)
    /\ Aborted(1)
    /\ StatusErrorsOf(1) = {}

\* the sessions read from the k-th row
SessionsOf(k) == {i \in 1..Len(appended) : appended[i]["row"].k = RowNo(k)}

InvalidStatus(k) ==
    ~BlankStatus(k) /\ ~IsDate(StatusCell(k)) /\ ~InStatusTable(StatusCell(k))

\* the debug-mode STATUS rules on the k-th row, the entry for an invalid
\* code being of the given type
DebugStatusRule(k, type) ==
    /\ (BlankStatus(k) /\ OnOrBeforeToday(k)) =>
          /\ \E i \in SessionsOf(k) : appended[i]["STATUS"] = Str(FallbackStatus)
          /\ StatusErrorsOf(k) = {}
    /\ InvalidStatus(k) =>
          \E i \in MessagesOf("STATUS code is not valid", k) : messages[i].type = type

\* in debug mode the flag is set by the entries that are not downgraded,
\* which are of type ERROR, and by no other
DebugFlagRule ==
    /\ \A i \in 1..Len(messages) :
         ~Downgraded(messages[i]) => (messages[i].type = "ERROR" /\ has_errors)
    /\ (\A i \in 1..Len(messages) : Downgraded(messages[i])) => ~has_errors

\* C18: in debug mode a blank STATUS on a session dated today or earlier
\* is replaced by the fallback status, an invalid STATUS code is recorded as
\* an INFO entry, neither sets the failure flag, and every other violation
\* records an ERROR entry and sets the flag.
C18_AsStated ==
    (conf.debug /\ StatusChecked) =>
        /\ \A k \in 1..Len(sheet) :
             (Validated(k) /\ HasCode(k) /\ IsDatetime(sheet[k][Col("DATE")]))
                => DebugStatusRule(k, "INFO")
        /\ DebugFlagRule

\* the same with the type the entry is given by add_error, on the rows whose
\* validation returned and while no add_error call was left by an exception
C18_AsRecorded ==
    (/\ conf.debug
     /\ StatusChecked
     /\ ~(last.exc = "KeyError" /\ last.where = "validate_station_info")) =>
        /\ \A k \in 1..Len(sheet) :
             (/\ Validated(k)
              /\ HasCode(k)
              /\ IsDatetime(sheet[k][Col("DATE")])
              /\ ~Aborted(k)) => DebugStatusRule(k, "ERROR")
        /\ DebugFlagRule

\* debug mode, one row with a STATUS code that is not in the table: the
\* read has returned success and the one entry recorded is of type ERROR
C18_Witness ==
    /\ conf.debug
    /\ StatusChecked
    /\ pc = "done"
    /\ result = TRUE
    /\ Len(sheet) = 1
    /\ InvalidStatus(1)
    /\ ~has_errors
    /\ Len(messages) = 1
    /\ messages[1].error.kind = "STATUS code is not valid"
    /\ messages[1].type = "ERROR"
    /\ messages[1].extra = "debug"

\* the row has no DATE the reader can use: lines 359-360 and 414-415
NoDate(cells) == cells[Col("DATE")] = EmptyCell \/ ~Truthy(cells[Col("DATE")])

\* this step of the row loop has read one more row of the sheet
RowRead == Len(sheet') = Len(sheet) + 1

\* this step has added one session, read from the row just read
OneSessionAdded ==
    /\ Len(appended') = Len(appended) + 1
    /\ SubSeq(appended', 1, Len(appended)) = appended
    /\ appended'[Len(appended')]["row"].k = RowNo(Len(sheet'))

\* C19: a row without a usable DATE adds no session, appends no message and
\* leaves the failure flag and the seen codes unchanged; every row with a
\* DATE adds exactly one session, with or without errors.
C19_AsStated ==
    [][RowRead =>
         IF NoDate(sheet'[Len(sheet')])
         THEN UNCHANGED <<appended, messages, has_errors, codes>>
         ELSE OneSessionAdded]_vars

\* a row without a usable DATE adds no session and no seen code
C19_NoSession ==
    [][(RowRead /\ NoDate(sheet'[Len(sheet')])) => UNCHANGED <<appended, codes>>]_vars

\* one row with no DATE and an unknown station has been read: an error is
\* recorded for it, the flag is set, and no session is listed
C19_Witness ==
    /\ Len(sheet) = 1
    /\ NoDate(sheet[1])
    /\ HasCode(1)
    /\ pc = "done"
    /\ AllMessagesOf(1) # {}
    /\ has_errors
    /\ result = FALSE
    /\ sessions = <<>>


\* the messages of the k-th row that the session type was not found
NotFoundOf(k) == MessagesOf("not found in master-type-map", k)

\* the lookup of the stripped, lower-cased CODE cell in the session types
TypeOf(cells) == get_session_type(lower(strip(cells[Col("CODE")].s)))

\* the session has the EXPERIMENT of the table, with an error when it has
\* none there
Backfilled(ses) ==
    /\ "EXPERIMENT" \in DOMAIN ses
    /\ ses["EXPERIMENT"] = TypeOf(CellsOf(ses))
    /\ NotFoundOf(ses["row"].k - 1) # {} <=> TypeOf(CellsOf(ses)) = None

\* the session has no EXPERIMENT but the sheet's, which has no such column
AsSupplied(ses) == "EXPERIMENT" \notin DOMAIN ses /\ NotFoundOf(ses["row"].k - 1) = {}

\* C22 as stated: the year of the file decides: every session of a file
\* before 2024 is backfilled, every session of a file of 2024 or later is
\* left as supplied, whatever its own date.
C22_AsStated ==
    \A i \in 1..Len(appended) :
        IF StrLess(conf.year, Year2024) THEN Backfilled(appended[i])
        ELSE AsSupplied(appended[i])

\* C22 amended: the year of the session's own DATE decides: every listed
\* session dated before 2024 is backfilled, every listed session dated 2024
\* or later is left as supplied, whatever the year of the file.
C22_BySessionDate ==
    \A i \in 1..Len(appended) :
        IF appended[i]["DATE"].y < ExperimentCutoff THEN Backfilled(appended[i])
        ELSE AsSupplied(appended[i])

\* a file of 2024 with a session of 2023 whose code is not in the table: the
\* session is listed with the EXPERIMENT of the lookup, None, and the error
\* is recorded
C22_Witness ==
    /\ conf.year = Year2024
    /\ \E i \in 1..Len(appended) :
         /\ appended[i]["DATE"].y = 2023
         /\ appended[i]["EXPERIMENT"] = None
         /\ NotFoundOf(appended[i]["row"].k - 1) # {}

(***************************************************************************)
(* Properties of format_field                                              *)
(***************************************************************************)
FieldReturned == call.fn = "format_field" /\ call.ret # Pending

\* round(x) of Python for x = n/16: to the nearest integer, a half to even
RoundHalfEven(n) ==
    LET q == n \div 16
        r == n % 16
    IN  IF r > 8 \/ (r = 8 /\ q % 2 = 1) THEN q + 1 ELSE q

TwoDigits(k) == <<DigitChars[(k \div 10) + 1], DigitChars[(k % 10) + 1]>>

\* the text the claim describes for a positive value below 100 hours, with
\* the given minute count
HourMinuteText(value16, mins) ==
    (IF value16 \div 16 < 10 THEN <<" ", DigitChars[(value16 \div 16) + 1]>>
     ELSE TwoDigits(value16 \div 16)) \o <<":">> \o TwoDigits(mins)

\* C14: under %H:%M a DUR of v hours renders as the 2-wide hours, ':' and
\* the 2-digit minutes round(frac(v) * 60) when v > 0, as five spaces when
\* v <= 0, and has 5 characters for every v below 100 hours.
C14_AsStated ==
    (FieldReturned /\ call.value < 100 * 16) =>
        /\ Len(call.ret.v) = 5
        /\ call.ret.v = IF call.value > 0
                        THEN HourMinuteText(call.value, RoundHalfEven((call.value % 16) * 60))
                        ELSE <<" ", " ", " ", " ", " ">>

\* the same with the minutes cut to the whole minute below
C14_Truncated ==
    (FieldReturned /\ call.value < 100 * 16) =>
        /\ Len(call.ret.v) = 5
        /\ call.ret.v = IF call.value > 0
                        THEN HourMinuteText(call.value, ((call.value % 16) * 60) \div 16)
                        ELSE <<" ", " ", " ", " ", " ">>

\* 1/16 hour, 3.75 minutes, renders as ' 0:03'
C14_Witness ==
    /\ FieldReturned
    /\ call.value = 1
    /\ call.ret.v = <<" ", "0", ":", "0", "3">>

(***************************************************************************)
(* Properties of build_text_paragraph                                      *)
(***************************************************************************)
AllWithin(lines, w) == \A i \in 1..Len(lines) : Len(lines[i]) <= w

\* build_text_paragraph was given lines each no longer than the width and
\* returned them unchanged
Unchanged(lines, ret) ==
    (ret # Pending /\ AllWithin(lines, call.max_line_length)) => ret.v = lines

\* C15: for every list of lines each no longer than the width, in
\* particular the lines a previous wrap at that width returned,
\* build_text_paragraph returns the same lines, in the same order and number.
C15_AsStated ==
    call.fn = "build_text_paragraph" =>
        /\ Unchanged(call.lines, call.ret)
        /\ Unchanged(call.ret.v, call.again)

\* the lines a wrap returned, each within the width, come back different
\* from a second wrap at the same width
C15_Witness ==
    /\ call.fn = "build_text_paragraph"
    /\ call.again # Pending
    /\ AllWithin(call.ret.v, call.max_line_length)
    /\ call.again.v # call.ret.v

(***************************************************************************)
(* Properties of write_file                                                *)
(***************************************************************************)
\* the places of the pieces of one kind in the file
Places(kind) == {p \in 1..Len(call.f.file) : call.f.file[p].kind = kind}

\* the session whose line is at place p: the i-th line is of the i-th session
SessionAt(p) == Cardinality({q \in Places("line") : q <= p})

\* the i-th session begins a run of sessions of one month
MonthChanges(i) ==
    i = 1 \/ call.sessions[i]["START"].m # call.sessions[i - 1]["START"].m

\* C20: a written file is the header once, one line per session in the
\* order of the list, and the footer once; a separator stands immediately
\* before a session line exactly when the month of that session differs
\* from the month of the session before it, the first session counting as
\* a change, so there are as many separators as runs of months; every file
\* starts with no month remembered.
C20_WriteOrder ==
    /\ (call.fn = "write_file" /\ call.at = "header") => call.f = NewMasterFile
    /\ (call.fn = "write_file" /\ call.at = "closed") =>
          /\ Places("header") = {1}
          /\ Places("footer") = {Len(call.f.file)}
          /\ Cardinality(Places("line")) = Len(call.sessions)
          /\ \A p \in Places("line") :
                /\ call.f.file[p].ses = call.sessions[SessionAt(p)]
                /\ (p - 1) \in Places("separator") <=> MonthChanges(SessionAt(p))
          /\ \A p \in Places("separator") : (p + 1) \in Places("line")
          /\ Cardinality(Places("separator"))
                = Cardinality({i \in 1..Len(call.sessions) : MonthChanges(i)})

\* the media file, written after the master file, of two sessions of
\* January: one separator, before the first line
C20_Witness ==
    /\ call.fn = "write_file"
    /\ call.code = "media"
    /\ call.at = "closed"
    /\ Len(call.sessions) = 2
    /\ call.sessions[1]["START"].m = 1
    /\ call.sessions[2]["START"].m = 1
    /\ call.f.file = <<HeaderText, SeparatorText, LineText(call.sessions[1]),
                       LineText(call.sessions[2]), FooterText>>

(***************************************************************************)
(* Properties of format_field on STATUS                                    *)
(***************************************************************************)
StatusReturned == call.fn = "format_field" /\ call.key = "STATUS" /\ call.ret # Pending

\* W: the length of a date rendered in the pattern of the call
StatusWidth == Len(strftime(call.today, call.format_spec))

\* C21: the rendered STATUS has the one width W: a timestamp is its
\* upper-cased date, a code is left-justified in exactly W characters,
\* padded when shorter and truncated when longer.
C21_AsStated ==
    StatusReturned =>
        /\ Len(call.ret.v) = StatusWidth
        /\ IsDatetime(call.value) =>
              call.ret.v = upper(strftime(call.value, call.format_spec))
        /\ call.value.t = "str" =>
              \A i \in 1..StatusWidth :
                 call.ret.v[i] = IF i <= Len(call.value.s) THEN call.value.s[i] ELSE " "

\* a code is rendered whole, left-justified, in W characters or more
C21_NeverShorter ==
    (StatusReturned /\ call.value.t = "str") =>
        /\ Len(call.ret.v) = IF Len(call.value.s) > StatusWidth
                             THEN Len(call.value.s) ELSE StatusWidth
        /\ SubSeq(call.ret.v, 1, Len(call.value.s)) = call.value.s

\* a code of six characters in the column of a five-character date
C21_Witness ==
    /\ StatusReturned
    /\ call.value.t = "str"
    /\ Len(call.value.s) = 6
    /\ StatusWidth = 5
    /\ call.ret.v = call.value.s

(***************************************************************************)
(* Properties of make_notes and save_txt                                   *)
(***************************************************************************)
\* the i-th block is dated today, or has no date and follows a kept block
RECURSIVE Kept(_)
Kept(i) ==
    \/ call.blocks[i].date = Today
    \/ (call.blocks[i].date = <<>> /\ i > 1 /\ Kept(i - 1))

\* the blocks at the places of a set, in the order of the list
RECURSIVE BlocksAt(_, _)
BlocksAt(places, i) ==
    IF i > Len(call.blocks) THEN <<>>
    ELSE (IF i \in places THEN <<call.blocks[i]>> ELSE <<>>) \o BlocksAt(places, i + 1)

MailMade == call.fn = "notes" /\ call.mail # Pending

\* C23 as stated: make_notes keeps exactly the blocks dated today and the undated
\* blocks that directly follow them, in order, wherever they are in the
\* list; a block of another date never removes a group collected before it.
C23_AsStated ==
    MailMade =>
        call.mail.v.accepted = BlocksAt({i \in 1..Len(call.blocks) : Kept(i)}, 1)

\* C23 amended: make_notes keeps, in order, the blocks after the last block
\* that is neither dated today nor an undated block directly following a
\* kept one: a block of another date removes the group collected before it.
C23_LastGroup ==
    MailMade =>
        LET dropped == {i \in 1..Len(call.blocks) : ~Kept(i)}
        IN  call.mail.v.accepted =
               BlocksAt({i \in 1..Len(call.blocks) : \A j \in dropped : j < i}, 1)

\* a block of today, a block of yesterday and a block of today with an
\* undated block after it: the last two are kept, the first is not
C23_Witness ==
    /\ MailMade
    /\ Len(call.blocks) = 3
    /\ call.blocks[1].date = Today
    /\ call.blocks[2].date = Yesterday
    /\ call.blocks[3].date = Today
    /\ call.mail.v.accepted = <<call.blocks[3]>>
    /\ call.mail.v.notes # <<>>

\* C28: save_txt leaves the wrap width in force as it was, so that a second
\* save_txt writes the text of the first and make_notes wraps alike before
\* and after a save_txt.
C28_AsStated ==
    [][/\ call'.max_line_length = call.max_line_length
       /\ (Len(call.saved) = 1 /\ Len(call'.saved) = 2) => call'.saved[2] = call.saved[1]]_vars

\* notes of width 54 saved twice and then mailed: the second file differs
\* from the first, and the mail is wrapped at 20 and differs from the mail
\* wrapped at 54
C28_Witness ==
    /\ MailMade
    /\ Len(call.saved) = 2
    /\ call.saved[1] # call.saved[2]
    /\ call.mail.v.width = 20
    /\ call.mail.v.notes # email_notes(call.mail.v.accepted, 54)

(***************************************************************************)
(* Properties of split_comments                                            *)
(***************************************************************************)
SplitReturned == call.fn = "split_comments" /\ call.ret # Pending

\* the lines are within the width, their words are the words of the text in
\* order, and a text within the width is the one line returned
GreedyWrap ==
    /\ AllWithin(call.ret.v, call.max_line_length)
    /\ split(Join(call.ret.v, <<" ">>)) = split(call.text)
    /\ Len(call.text) <= call.max_line_length => call.ret.v = <<call.text>>

\* C24: for every text and width of 1 or more split_comments returns the
\* greedy wrap: lines within the width, no word split or dropped, a text
\* within the width returned as the one unchanged line.
C24_AsStated == SplitReturned => GreedyWrap

\* the same for the texts whose words are all shorter than the width
C24_ShortWords ==
    (/\ SplitReturned
     /\ \A i \in 1..Len(split(call.text)) :
           Len(split(call.text)[i]) < call.max_line_length) => GreedyWrap

\* a word of three letters and a word of two at width 3: the first line
\* returned is longer than the width and the second word is cut
C24_Witness ==
    /\ SplitReturned
    /\ call.text = <<"a","a","a"," ","a","a">>
    /\ call.max_line_length = 3
    /\ call.ret.v = << <<"a","a","a"," ","a">>, <<"a">> >>

(***************************************************************************)
(* Properties of the recursion                                             *)
(***************************************************************************)
\* this step is a call of the function on itself with a shorter text, or
\* its return, and not the end by RecursionError
Shortens ==
    /\ call'.exc = ""
    /\ call'.depth > call.depth => Len(call'.text) < Len(call.text)

\* C25: split_comments and clean_punctuation finish for every text and
\* every width, also a width of 0 or less and a word longer than the
\* width, the text getting shorter at every call of the function on itself.
C25_AsStated == [][Shortens]_vars

\* the same for clean_punctuation, and for split_comments at a width of 1
\* or more
C25_PositiveWidth ==
    [][(call.fn = "clean_punctuation()" \/ call.max_line_length >= 1) => Shortens]_vars

\* split_comments at the width 0 on a text of one word has ended in
\* RecursionError, the text a single letter
C25_Witness ==
    /\ call.fn = "split_comments()"
    /\ call.max_line_length = 0
    /\ call.exc = "RecursionError"
    /\ call.text = <<"a">>

(***************************************************************************)
(* Properties of the two renderers                                         *)
(***************************************************************************)
Rendered == call.fn = "render" /\ call.plain # Pending /\ call.html # Pending

\* C26: for every field class and value the HTML renderer returns what the
\* plain renderer returns with only its trailing blanks removed.
C26_AsStated ==
    Rendered =>
        /\ call.plain.exc = ""
        /\ call.html.exc = ""
        /\ call.html.v = rstrip(call.plain.v)

\* the HTML value is the plain value with the blanks of both ends removed,
\* but for a duration of zero or less and for a DELAY that is not a number
C26_BothEnds ==
    (/\ Rendered
     /\ call.key = "DUR" => call.value > 0
     /\ call.key = "DELAY" => call.value.t = "num") =>
        /\ call.plain.exc = ""
        /\ call.html.exc = ""
        /\ call.html.v = strip(call.plain.v)

\* a duration of zero: blank in the plain file, 0:00 in the HTML table
C26_Witness ==
    /\ Rendered
    /\ call.key = "DUR"
    /\ call.value = 0
    /\ call.plain.v = <<" ", " ", " ", " ", " ">>
    /\ call.html.v = <<"0", ":", "0", "0">>

(***************************************************************************)
(* Unlabeled cells of an intensive row                                     *)
(***************************************************************************)
\* the row just read, and what reading it leaves behind when no label is
\* inherited from the row before it
RowAlone ==
    read_intensive_row(Attributes, sheet'[Len(sheet')], Len(sheet) + 2, "None")

\* C27: in the intensive variant the inherited label is reset at the start of
\* every row: a row adds the session and the messages it would add with no
\* label inherited, however the row before it ended.
C27_AsStated ==
    [][(pc = "reading" /\ conf.type = "intensives" /\ Len(sheet') = Len(sheet) + 1)
          => /\ messages' = RowAlone.st.messages
             /\ appended' = IF RowAlone.outcome = "appended"
                            THEN Append(appended, RowAlone.st.ses) ELSE appended]_vars

\* C27: as long as no row has left the label STATIONS behind, each row is
\* read as if it were the first
C27_NothingInherited ==
    [][(pc = "reading" /\ conf.type = "intensives" /\ Len(sheet') = Len(sheet) + 1
          /\ default_field = "None")
          => /\ messages' = RowAlone.st.messages
             /\ appended' = IF RowAlone.outcome = "appended"
                            THEN Append(appended, RowAlone.st.ses) ELSE appended]_vars

\* C27: a row with nothing but a station cell was skipped, and the cell in the
\* unlabeled first column of the next row was taken as a station
C27_Witness ==
    /\ conf.type = "intensives"
    /\ Len(sheet) = 2
    /\ \A i \in 1..Len(BaseRow) : i # 6 => sheet[1][i] = EmptyCell
    /\ sheet[1][6] = Str(<<"W","Z">>)
    /\ sheet[2] = [BaseRow EXCEPT ![1] = Str(<<"M","C">>)]
    /\ last.outcome = "appended"
    /\ Len(appended) = 1
    /\ appended[1]["master"] = Str(<<"M","C","M","C","W","Z">>)

(***************************************************************************)
(* format_list: the codes of the result against the tokens of the list     *)
(***************************************************************************)
\* the clusters of a grouped text: the pieces between its " -" separators
RECURSIVE ClusterTexts(_)
ClusterTexts(text) ==
    IF ~HasSep(text) THEN <<text>>
    ELSE LET i == CHOOSE k \in 1..(Len(text) - 1) :
                      /\ text[k] = " " /\ text[k + 1] = "-"
                      /\ \A j \in 1..(k - 1) : ~(text[j] = " " /\ text[j + 1] = "-")
         IN  <<Take(text, i - 1)>> \o ClusterTexts(Drop(text, i + 1))

\* the n-character codes of a grouped text, cluster by cluster
CodesIn(text, n) ==
    Concat([i \in 1..Len(ClusterTexts(text)) |-> findall(n, ClusterTexts(text)[i])])

\* the non-blank tokens of a list, each truncated to n characters
RECURSIVE TruncatedTokens(_, _)
TruncatedTokens(tokens, n) ==
    IF tokens = <<>> THEN <<>>
    ELSE (IF IsBlank(Head(tokens)) THEN <<>> ELSE <<Take(Head(tokens), n)>>)
             \o TruncatedTokens(Tail(tokens), n)

\* a grouped text of 4-character units with every unit cut to 2 characters
Truncated(text) ==
    Join([i \in 1..Len(ClusterTexts(text)) |->
            Concat([j \in 1..Len(findall(4, ClusterTexts(text)[i])) |->
                      Take(findall(4, ClusterTexts(text)[i])[j], 2)])], Sep)

\* every non-blank token has at least n characters
LongEnough(tokens, n) ==
    \A i \in 1..Len(tokens) : IsBlank(tokens[i]) \/ Len(tokens[i]) >= n

\* the codes of the result are the truncated tokens, as multisets, and there
\* is one cluster for each run
LosesNothing ==
    /\ call.ret.exc = ""
    /\ sortedStr(CodesIn(call.ret.v, call.n))
           = sortedStr(TruncatedTokens(call.stations, call.n))
    /\ Len(ClusterTexts(call.ret.v)) = Len(Runs(call.stations))

\* the tokens are the cell texts of a master row (four characters or more,
\* '    ' for a blank cell); the master text is made from their first two
\* characters
FromCells == call.n = 4 /\ \A i \in 1..Len(call.stations) : Len(call.stations[i]) >= 4

MasterText == format_list([i \in 1..Len(call.stations) |-> Take(call.stations[i], 2)], 2)

MasterFromMedia ==
    /\ MasterText.exc = call.ret.exc
    /\ call.ret.exc = "" => Truncated(call.ret.v) = MasterText.v

C29_Sessions ==
    \A i \in 1..Len(appended) :
        ("media" \in DOMAIN appended[i]
           /\ ~\E m \in 1..Len(messages) :
                  /\ messages[m].row = appended[i]["row"].k
                  /\ messages[m].error.kind \in {"invalid station code",
                                                 "invalid information"})
            => Truncated(appended[i]["media"].s) = appended[i]["master"].s

(***************************************************************************)
(* Properties of ScheduleRequest.build                                     *)
(***************************************************************************)
Built == call.fn = "build" /\ call.built

\* the antenna under whose heading line k stands
Heading(k) ==
    LET h == CHOOSE j \in 1..k :
                 /\ call.lines[j].kind = "antenna_begin"
                 /\ \A m \in (j + 1)..k : call.lines[m].kind # "antenna_begin"
    IN  call.lines[h].name

\* the session lines under the antenna sta_id, in the order of the lines
ListedUnder(sta_id) ==
    SelectSeq([k \in 1..Len(call.lines) |-> call.lines[k] @@ [at |-> k]],
              LAMBDA l : l.kind = "session" /\ Heading(l.at) = sta_id)

\* the whole two-character codes of a grouped station text
StationCodes(text) == Range(CodesIn(text, 2))

Numbered ==
    \A a \in Range(call.antennas) :
        /\ \A k \in 1..Len(ListedUnder(a)) : ListedUnder(a)[k].rec = k
        /\ \A k \in 1..(Len(ListedUnder(a)) - 1) :
               ListedUnder(a)[k].ses < ListedUnder(a)[k + 1].ses

\* C30 as stated: a session is listed under an antenna exactly when the
\* antenna's code is one of the whole two-character codes of the session's
\* station text, and under each antenna the listed sessions are numbered
\* 1, 2, 3, ... in the order of the session list.
C30_AsStated ==
    Built =>
        /\ \A a \in Range(call.antennas) : \A s \in 1..Len(call.sessions) :
               (\E k \in 1..Len(ListedUnder(a)) : ListedUnder(a)[k].ses = s)
                   <=> a \in StationCodes(call.sessions[s].master)
        /\ Numbered

\* C30: a session is listed under an antenna exactly when the antenna's code
\* is a substring of the station text; the numbering is as stated
C30_Substring ==
    Built =>
        /\ \A a \in Range(call.antennas) : \A s \in 1..Len(call.sessions) :
               (\E k \in 1..Len(ListedUnder(a)) : ListedUnder(a)[k].ses = s)
                   <=> contains(call.sessions[s].master, a)
        /\ Numbered

\* the session of MC and WZ is listed, as number 2, under the antenna CW
C30_Witness ==
    /\ Built
    /\ call.antennas = <<<<"C","W">>, <<"A","B">>>>
    /\ Len(call.sessions) = 2
    /\ call.sessions[1].master = <<"A","B","M","C","W","Z">>
    /\ call.sessions[2].master = <<"M","C","W","Z">>
    /\ Len(ListedUnder(<<"C","W">>)) = 2
    /\ ListedUnder(<<"C","W">>)[2].ses = 2
    /\ ListedUnder(<<"C","W">>)[2].rec = 2
    /\ <<"C","W">> \notin StationCodes(call.sessions[2].master)
    /\ Len(ListedUnder(<<"A","B">>)) = 1

====
